---- MODULE Spec2Model ----
(***************************************************************************)
(* A model of the Langflow plugin components of HongGunKR/axstudio:        *)
(*   - CoEModelPicker              (agents/coe_model_picker.py)            *)
(*   - ToolPickerDropdownSafeMessage (tools/tool_picker.py)                *)
(*   - ToolInvokerFromSelectionMin (tools/tool_invoker.py)                 *)
(*   - ToolPickerJsonRouterMessageOnlyV2 (tools/tool_picker_router.py)     *)
(* Python strings are TLA+ strings (sequences of characters); the str      *)
(* methods the code uses are defined below character by character.         *)
(***************************************************************************)
EXTENDS Integers, Sequences, FiniteSets, TLC

(***************************************************************************)
(* Python str methods                                                      *)
(***************************************************************************)
CharAt(s, i) == SubSeq(s, i, i)

StartsWith(s, p) == Len(s) >= Len(p) /\ SubSeq(s, 1, Len(p)) = p

EndsWith(s, p) == Len(s) >= Len(p) /\ SubSeq(s, Len(s) - Len(p) + 1, Len(s)) = p

\* `t in s`
Contains(s, t) == \E i \in 1..(Len(s) - Len(t) + 1) : SubSeq(s, i, i + Len(t) - 1) = t

RECURSIVE RStripCh(_, _)
\* s.rstrip(ch) for a one-character ch
RStripCh(s, ch) ==
    IF Len(s) > 0 /\ CharAt(s, Len(s)) = ch THEN RStripCh(SubSeq(s, 1, Len(s) - 1), ch) ELSE s

RECURSIVE LStripCh(_, _)
LStripCh(s, ch) ==
    IF Len(s) > 0 /\ CharAt(s, 1) = ch THEN LStripCh(SubSeq(s, 2, Len(s)), ch) ELSE s

\* s.strip(): the whitespace of the modelled alphabet is the blank
Strip(s) == LStripCh(RStripCh(s, " "), " ")

RECURSIVE Replace(_, _, _)
\* s.replace(old, new): every non-overlapping occurrence, left to right (old non-empty)
Replace(s, old, new) ==
    IF Len(s) < Len(old) THEN s
    ELSE IF SubSeq(s, 1, Len(old)) = old
         THEN new \o Replace(SubSeq(s, Len(old) + 1, Len(s)), old, new)
         ELSE CharAt(s, 1) \o Replace(SubSeq(s, 2, Len(s)), old, new)

UpperAlpha == "ABCDEFGHIJKLMNOPQRSTUVWXYZ"
LowerAlpha == "abcdefghijklmnopqrstuvwxyz"
\* the characters of the model in code-point order
Ascii == " ()-./0123456789:ABCDEFGHIJKLMNOPQRSTUVWXYZ_abcdefghijklmnopqrstuvwxyz"

Chars == {CharAt(Ascii, i) : i \in 1..Len(Ascii)}

\* c.lower() and c.upper() of every character
LowerMap ==
    [c \in Chars |->
        IF \E i \in 1..Len(UpperAlpha) : CharAt(UpperAlpha, i) = c
        THEN CharAt(LowerAlpha, CHOOSE i \in 1..Len(UpperAlpha) : CharAt(UpperAlpha, i) = c)
        ELSE c]
UpperMap ==
    [c \in Chars |->
        IF \E i \in 1..Len(LowerAlpha) : CharAt(LowerAlpha, i) = c
        THEN CharAt(UpperAlpha, CHOOSE i \in 1..Len(LowerAlpha) : CharAt(LowerAlpha, i) = c)
        ELSE c]
\* ord(c)
OrdMap == [c \in Chars |-> CHOOSE i \in 1..Len(Ascii) : CharAt(Ascii, i) = c]

LowerChar(c) == LowerMap[c]
UpperChar(c) == UpperMap[c]

RECURSIVE Lower(_)
Lower(s) == IF Len(s) = 0 THEN "" ELSE LowerChar(CharAt(s, 1)) \o Lower(SubSeq(s, 2, Len(s)))

RECURSIVE Upper(_)
Upper(s) == IF Len(s) = 0 THEN "" ELSE UpperChar(CharAt(s, 1)) \o Upper(SubSeq(s, 2, Len(s)))

Ord(c) == OrdMap[c]

RECURSIVE StrLess(_, _)
\* a < b on Python strings (code-point lexicographic order)
StrLess(a, b) ==
    IF Len(b) = 0 THEN FALSE
    ELSE IF Len(a) = 0 THEN TRUE
    ELSE IF CharAt(a, 1) = CharAt(b, 1) THEN StrLess(SubSeq(a, 2, Len(a)), SubSeq(b, 2, Len(b)))
    ELSE Ord(CharAt(a, 1)) < Ord(CharAt(b, 1))

(***************************************************************************)
(* JSON values (what json.loads returns) as tagged trees:                  *)
(*   t = "null" | "bool" | "str" | "num" | "list" | "obj"; s the text of a  *)
(*   string or number, "true" or "false" for a bool; v the elements of a   *)
(*   list, or the entries [k, val] of an object in insertion order.        *)
(***************************************************************************)
JNull == [t |-> "null", s |-> "", v |-> <<>>]
JStr(x) == [t |-> "str", s |-> x, v |-> <<>>]
JNum(x) == [t |-> "num", s |-> x, v |-> <<>>]
JBool(x) == [t |-> "bool", s |-> x, v |-> <<>>]
JList(xs) == [t |-> "list", s |-> "", v |-> xs]
JObj(es) == [t |-> "obj", s |-> "", v |-> es]
E(key, val) == [k |-> key, val |-> val]

\* isinstance(j, dict)
IsDict(j) == j.t = "obj"

\* `key in d` for a dict d
HasKey(d, key) == \E i \in 1..Len(d.v) : d.v[i].k = key

\* d.get(key) for a dict d: None when the key is absent
Get(d, key) ==
    IF HasKey(d, key) THEN d.v[CHOOSE i \in 1..Len(d.v) : d.v[i].k = key].val ELSE JNull

\* list(d.keys())
Keys(d) == [i \in 1..Len(d.v) |-> d.v[i].k]

\* bool(j)
Truthy(j) ==
    CASE j.t = "null" -> FALSE
      [] j.t = "str" -> j.s # ""
      [] j.t = "num" -> j.s # "0"
      [] j.t = "bool" -> j.s = "true"
      [] OTHER -> Len(j.v) > 0

\* repr(j): of a string, in single quotes (the strings here hold no quote)
RECURSIVE PyRepr(_)
RECURSIVE ReprItems(_)
RECURSIVE ReprEntries(_)
ReprItems(xs) ==
    IF xs = <<>> THEN ""
    ELSE PyRepr(xs[1]) \o (IF Len(xs) > 1 THEN ", " ELSE "") \o ReprItems(Tail(xs))
ReprEntries(es) ==
    IF es = <<>> THEN ""
    ELSE "'" \o es[1].k \o "': " \o PyRepr(es[1].val)
         \o (IF Len(es) > 1 THEN ", " ELSE "") \o ReprEntries(Tail(es))
PyRepr(j) ==
    CASE j.t = "null" -> "None"
      [] j.t = "bool" -> (IF j.s = "true" THEN "True" ELSE "False")
      [] j.t = "str" -> "'" \o j.s \o "'"
      [] j.t = "num" -> j.s
      [] j.t = "list" -> "[" \o ReprItems(j.v) \o "]"
      [] OTHER -> "{" \o ReprEntries(j.v) \o "}"

\* str(j)
PyStr(j) == IF j.t = "str" THEN j.s ELSE PyRepr(j)

\* str(j or "")
StrOrEmpty(j) == IF Truthy(j) THEN PyStr(j) ELSE ""

(***************************************************************************)
(* Exceptions. A call returns [exc, val]: exc = "" when it returned val,   *)
(* otherwise the class of the exception it raised.                         *)
(* The classes are those urllib and json raise, with their base classes.   *)
(***************************************************************************)
Ret(val) == [exc |-> "", val |-> val]
Raise(cls) == [exc |-> cls, val |-> JNull]

\* the class and its base classes
Mro(cls) ==
    CASE cls = "HTTPError" -> {"HTTPError", "URLError", "OSError", "Exception"}
      [] cls = "URLError" -> {"URLError", "OSError", "Exception"}
      [] cls = "gaierror" -> {"gaierror", "OSError", "Exception"}
      [] cls = "OSError" -> {"OSError", "Exception"}
      [] cls = "JSONDecodeError" -> {"JSONDecodeError", "ValueError", "Exception"}
      [] OTHER -> {cls, "Exception"}

\* `except classes:` catches an exception of class cls
Catches(classes, cls) == Mro(cls) \cap classes # {}

\* except (URLError, OSError, socket.gaierror)
RetryExcs == {"URLError", "OSError", "gaierror"}

\* what urlopen + json.loads can raise: connection refused or DNS failure
\* (URLError), an I/O error or timeout (OSError), an HTTP error status
\* (HTTPError), a body that is not JSON (JSONDecodeError)
HttpFailures == {Raise("URLError"), Raise("OSError"), Raise("HTTPError"), Raise("JSONDecodeError")}

\* the failures of the transport, as opposed to an HTTP error status
TransportExcs == {"URLError", "OSError", "gaierror"}

(***************************************************************************)
(* CoEModelPicker: constants and URL helpers                               *)
(***************************************************************************)
ALLOWED_OWNERS == {"openai", "sktax"}
DEFAULT_BACKEND == RStripCh(Strip("http://host.docker.internal:8000"), "/")

\* CoEModelPicker._normalize
Normalize(base, force_https) ==
    LET b1 == Strip(IF base = "" THEN DEFAULT_BACKEND ELSE base)
        b2 == IF force_https /\ StartsWith(b1, "http://")
              THEN "https://" \o SubSeq(b1, Len("http://") + 1, Len(b1))
              ELSE b1
    IN RStripCh(b2, "/")

\* a rewrite to the loopback address instead of the container gateway
LinuxFallbackLoopback(base) == Replace(base, "host.docker.internal", "127.0.0.1")

\* CoEModelPicker._linux_fallback
LinuxFallback(base) ==
    IF Contains(base, "host.docker.internal")
    THEN Replace(base, "host.docker.internal", "172.17.0.1")
    ELSE base

\* CoEModelPicker._fallback_pairs
FallbackPairs ==
    << <<"GPT-4o Mini", "gpt-4o-mini">>,
       <<"GPT-4o", "gpt-4o">>,
       <<"text-embedding-3-small", "text-embedding-3-small">>,
       <<"AX4 Model", "ax4">> >>

(***************************************************************************)
(* dict and list helpers over (name, id) pairs                             *)
(***************************************************************************)
\* d[k] = v on a dict kept as a sequence of <<key, value>> in insertion order
DictSet(d, k, v) ==
    IF \E i \in 1..Len(d) : d[i][1] = k
    THEN [i \in 1..Len(d) |-> IF d[i][1] = k THEN <<k, v>> ELSE d[i]]
    ELSE Append(d, <<k, v>>)

RECURSIVE DictFromPairsAcc(_, _)
DictFromPairsAcc(d, pairs) ==
    IF pairs = <<>> THEN d
    ELSE DictFromPairsAcc(DictSet(d, pairs[1][1], pairs[1][2]), Tail(pairs))

\* {name: mid for name, mid in pairs}
DictFromPairs(pairs) == DictFromPairsAcc(<<>>, pairs)

\* list(d.keys())
DictKeys(d) == [i \in 1..Len(d) |-> d[i][1]]

\* d.get(k, "")
DictGet(d, k) ==
    IF \E i \in 1..Len(d) : d[i][1] = k
    THEN d[CHOOSE i \in 1..Len(d) : d[i][1] = k][2]
    ELSE ""

\* [n for n, _ in pairs]
Firsts(pairs) == [i \in 1..Len(pairs) |-> pairs[i][1]]

\* x in xs
InSeq(x, xs) == \E i \in 1..Len(xs) : xs[i] = x

\* a sort key that keeps the case of the label
PairKeyCased(pair) == pair[1]

\* the sort key of _fetch_models: x[0].lower()
PairKey(pair) == Lower(pair[1])

\* one step of the stable sort: e goes after every element whose key is not greater
InsertPair(sorted, e) ==
    LET key == PairKey(e)
        k == Cardinality({i \in 1..Len(sorted) : ~StrLess(key, PairKey(sorted[i]))})
    IN SubSeq(sorted, 1, k) \o <<e>> \o SubSeq(sorted, k + 1, Len(sorted))

RECURSIVE SortPairsAcc(_, _)
SortPairsAcc(sorted, rest) ==
    IF rest = <<>> THEN sorted ELSE SortPairsAcc(InsertPair(sorted, rest[1]), Tail(rest))

\* pairs.sort(key=lambda x: x[0].lower())
SortPairs(pairs) == SortPairsAcc(<<>>, pairs)

(***************************************************************************)
(* json.dumps(ensure_ascii=False), with the default separators and with    *)
(* indent=2                                                                *)
(***************************************************************************)
Escaped(c) ==
    CASE c = "\"" -> "\\\""
      [] c = "\\" -> "\\\\"
      [] c = "\n" -> "\\n"
      [] c = "\t" -> "\\t"
      [] OTHER -> c

RECURSIVE Escape(_)
Escape(s) == IF Len(s) = 0 THEN "" ELSE Escaped(CharAt(s, 1)) \o Escape(SubSeq(s, 2, Len(s)))

\* a string literal
Quoted(s) ==
    "\"" \o (IF \E i \in 1..Len(s) : CharAt(s, i) \in {"\"", "\\", "\n", "\t"} THEN Escape(s) ELSE s) \o "\""

RECURSIVE JsonDumps(_)
RECURSIVE DumpItems(_)
RECURSIVE DumpEntries(_)
DumpItems(xs) ==
    IF xs = <<>> THEN ""
    ELSE JsonDumps(xs[1]) \o (IF Len(xs) > 1 THEN ", " ELSE "") \o DumpItems(Tail(xs))
DumpEntries(es) ==
    IF es = <<>> THEN ""
    ELSE Quoted(es[1].k) \o ": " \o JsonDumps(es[1].val)
         \o (IF Len(es) > 1 THEN ", " ELSE "") \o DumpEntries(Tail(es))
JsonDumps(j) ==
    CASE j.t = "null" -> "null"
      [] j.t = "bool" -> j.s
      [] j.t = "str" -> Quoted(j.s)
      [] j.t = "num" -> j.s
      [] j.t = "list" -> "[" \o DumpItems(j.v) \o "]"
      [] OTHER -> "{" \o DumpEntries(j.v) \o "}"

RECURSIVE Pad(_)
Pad(n) == IF n = 0 THEN "" ELSE " " \o Pad(n - 1)

\* json.dumps(j, indent=2), j at nesting depth `depth`
RECURSIVE JsonDumpsIndent(_, _)
RECURSIVE DumpItemsIndent(_, _)
RECURSIVE DumpEntriesIndent(_, _)
DumpItemsIndent(xs, depth) ==
    IF xs = <<>> THEN ""
    ELSE Pad(2 * depth) \o JsonDumpsIndent(xs[1], depth)
         \o (IF Len(xs) > 1 THEN ",\n" ELSE "\n") \o DumpItemsIndent(Tail(xs), depth)
DumpEntriesIndent(es, depth) ==
    IF es = <<>> THEN ""
    ELSE Pad(2 * depth) \o Quoted(es[1].k) \o ": " \o JsonDumpsIndent(es[1].val, depth)
         \o (IF Len(es) > 1 THEN ",\n" ELSE "\n") \o DumpEntriesIndent(Tail(es), depth)
JsonDumpsIndent(j, depth) ==
    CASE j.t = "list" /\ j.v # <<>> -> "[\n" \o DumpItemsIndent(j.v, depth + 1) \o Pad(2 * depth) \o "]"
      [] j.t = "obj" /\ j.v # <<>> -> "{\n" \o DumpEntriesIndent(j.v, depth + 1) \o Pad(2 * depth) \o "}"
      [] OTHER -> JsonDumps(j)

(***************************************************************************)
(* json.loads: a parse [ok, val, pos] of the text from a position on, pos  *)
(* the position after the value. Numbers are integers; of the escapes in   *)
(* strings, those json.dumps above writes.                                 *)
(***************************************************************************)
Parsed(val, pos) == [ok |-> TRUE, val |-> val, pos |-> pos]
NoParse == [ok |-> FALSE, val |-> JNull, pos |-> 0]

WhiteSpace == {" ", "\n", "\t", "\r"}
Digits == {"0", "1", "2", "3", "4", "5", "6", "7", "8", "9"}

\* the character at position i, "" past the end
At(s, i) == IF i >= 1 /\ i <= Len(s) THEN CharAt(s, i) ELSE ""

RECURSIVE SkipWs(_, _)
SkipWs(s, i) == IF At(s, i) \in WhiteSpace THEN SkipWs(s, i + 1) ELSE i

\* the rest of a string literal, i the position after the opening quote or
\* after the characters read into acc
RECURSIVE ScanString(_, _, _)
ScanString(s, i, acc) ==
    LET c == At(s, i)
        d == At(s, i + 1)
    IN CASE c = "" -> NoParse
         [] c = "\"" -> Parsed(JStr(acc), i + 1)
         [] c = "\\" ->
              CASE d \in {"\"", "\\", "/"} -> ScanString(s, i + 2, acc \o d)
                [] d = "n" -> ScanString(s, i + 2, acc \o "\n")
                [] d = "t" -> ScanString(s, i + 2, acc \o "\t")
                [] OTHER -> NoParse
         [] c \in {"\n", "\t", "\r"} -> NoParse
         [] OTHER -> ScanString(s, i + 1, acc \o c)

RECURSIVE ScanDigits(_, _)
ScanDigits(s, i) == IF At(s, i) \in Digits THEN ScanDigits(s, i + 1) ELSE i

\* -?(0|[1-9][0-9]*)
ScanNumber(s, i) ==
    LET from == IF At(s, i) = "-" THEN i + 1 ELSE i
        to == ScanDigits(s, from)
    IN IF to = from \/ (At(s, from) = "0" /\ to > from + 1) THEN NoParse
       ELSE Parsed(JNum(SubSeq(s, i, to - 1)), to)

\* the literal lit at position i
Literal(s, i, lit, val) ==
    IF i + Len(lit) - 1 <= Len(s) /\ SubSeq(s, i, i + Len(lit) - 1) = lit
    THEN Parsed(val, i + Len(lit)) ELSE NoParse

\* d[k] = v while an object is parsed: a repeated key keeps its place and takes the later value
ObjSet(es, key, val) ==
    IF \E i \in 1..Len(es) : es[i].k = key
    THEN [i \in 1..Len(es) |-> IF es[i].k = key THEN E(key, val) ELSE es[i]]
    ELSE Append(es, E(key, val))

RECURSIVE ParseValue(_, _)
RECURSIVE ParseItems(_, _, _)
RECURSIVE ParseEntries(_, _, _)

\* the elements of an array from position i on, after acc
ParseItems(s, i, acc) ==
    LET e == ParseValue(s, SkipWs(s, i))
        j == SkipWs(s, e.pos)
    IN IF ~e.ok THEN NoParse
       ELSE CASE At(s, j) = "," -> ParseItems(s, j + 1, Append(acc, e.val))
              [] At(s, j) = "]" -> Parsed(JList(Append(acc, e.val)), j + 1)
              [] OTHER -> NoParse

\* the entries of an object from position i on, after acc
ParseEntries(s, i, acc) ==
    LET k == SkipWs(s, i)
        key == IF At(s, k) = "\"" THEN ScanString(s, k + 1, "") ELSE NoParse
        c == SkipWs(s, key.pos)
        e == IF At(s, c) = ":" THEN ParseValue(s, SkipWs(s, c + 1)) ELSE NoParse
        j == SkipWs(s, e.pos)
    IN IF ~key.ok \/ ~e.ok THEN NoParse
       ELSE CASE At(s, j) = "," -> ParseEntries(s, j + 1, ObjSet(acc, key.val.s, e.val))
              [] At(s, j) = "}" -> Parsed(JObj(ObjSet(acc, key.val.s, e.val)), j + 1)
              [] OTHER -> NoParse

ParseValue(s, i) ==
    LET c == At(s, i)
        j == SkipWs(s, i + 1)
    IN CASE c = "{" -> IF At(s, j) = "}" THEN Parsed(JObj(<<>>), j + 1) ELSE ParseEntries(s, i + 1, <<>>)
         [] c = "[" -> IF At(s, j) = "]" THEN Parsed(JList(<<>>), j + 1) ELSE ParseItems(s, i + 1, <<>>)
         [] c = "\"" -> ScanString(s, i + 1, "")
         [] c \in Digits \cup {"-"} -> ScanNumber(s, i)
         [] c = "n" -> Literal(s, i, "null", JNull)
         [] c = "t" -> Literal(s, i, "true", JBool("true"))
         [] c = "f" -> Literal(s, i, "false", JBool("false"))
         [] OTHER -> NoParse

\* json.loads(s): the value, or JSONDecodeError
JsonLoads(s) ==
    LET r == ParseValue(s, SkipWs(s, 1))
    IN IF r.ok /\ SkipWs(s, r.pos) > Len(s) THEN Ret(r.val) ELSE Raise("JSONDecodeError")

\* the reads of the outputs of one instance that the model follows
MaxReads == 2
\* the longest list of models in a discovery body
MaxItems == 2

(***************************************************************************)
(* State                                                                   *)
(***************************************************************************)
VARIABLES
    mp_cfg,               \* CoEModelPicker build_config: model_name options/value, backend_url, force_https, refresh_now
    mp_name_to_id,        \* CoEModelPicker._name_to_id
    mp_last_text,         \* CoEModelPicker._last_text
    mp_did_initial_fetch, \* CoEModelPicker._did_initial_fetch
    mp_in,                \* the run inputs of the instance: chat_input, prompt, tools and the tool toggles
    mp_net,               \* the requests the last operation of the model picker issued, in order
    mp_fetch,             \* what the last operation, if a refresh, got from /v1/models
    mp_req,               \* the request body the last operation, if a chat call, built
    mp_reads,             \* the last two reads of an output of this instance: [exc, text, resp, calls]
    mp_nreads,            \* how many reads this instance has served
    mp_call,              \* the last update_build_config, where a specification observes it: field_name and, on entry, the value, whether options were empty, the flag
    ti_in,                \* ToolInvokerFromSelectionMin inputs: selection_json, user_input, params_json, method_override, force_get_query
    ti_net,               \* the requests the last run of the tool invoker issued, in order
    ti_out,               \* what the last run of the tool invoker returned or raised
    tp_cfg,               \* ToolPickerDropdownSafeMessage build_config: selected_tool options/value, backend_base_url, force_https, refresh_now
    tp_last_tools,        \* ToolPickerDropdownSafeMessage._last_tools
    tp_did_initial_fetch, \* ToolPickerDropdownSafeMessage._did_initial_fetch
    tp_net,               \* the requests the last operation of the tool picker issued, in order
    tp_out,               \* what the last operation of the tool picker, if a run, returned
    tp_call,              \* the last update_build_config, where a specification observes it: field_name and, on entry, the value, whether options were empty, the flag
    rt_cfg,               \* ToolPickerJsonRouterMessageOnlyV2 build_config: tool_message, key_for_prompt options/value, minify_original
    rt_last,              \* what the last update_build_config of the router worked on
    rt_in,                \* the router's inputs at run time: tool_message, key_for_prompt, minify_original
    rt_out,               \* what the last read of an output of the router returned or raised
    jn                    \* the arguments and the result of one call of _join_url

mpVars == <<mp_cfg, mp_name_to_id, mp_last_text, mp_did_initial_fetch, mp_in, mp_net, mp_fetch, mp_req,
            mp_reads, mp_nreads, mp_call>>
tiVars == <<ti_in, ti_net, ti_out>>
tpVars == <<tp_cfg, tp_last_tools, tp_did_initial_fetch, tp_net, tp_out, tp_call>>
rtVars == <<rt_cfg, rt_last, rt_in, rt_out>>

vars == <<mpVars, tiVars, tpVars, rtVars, jn>>

\* Optional[str]
None == [some |-> FALSE, s |-> ""]
Some(x) == [some |-> TRUE, s |-> x]

\* one request as the network saw it
Call(role, url, r) == [role |-> role, url |-> url, exc |-> r.exc]

(***************************************************************************)
(* CoEModelPicker._fetch_models                                            *)
(***************************************************************************)
\* what `for item in data` iterates over
Iterate(d) ==
    CASE d.t = "list" -> Ret(d.v)
      [] d.t = "obj" -> Ret([i \in 1..Len(d.v) |-> JStr(d.v[i].k)])
      [] d.t = "str" -> Ret([i \in 1..Len(d.s) |-> JStr(CharAt(d.s, i))])
      [] OTHER -> Raise("TypeError")

\* data = (payload.get("result") or {}).get("data") or payload.get("data") or []
ModelsData(payload) ==
    IF ~IsDict(payload) THEN Raise("AttributeError")
    ELSE LET res == Get(payload, "result") IN
         IF Truthy(res) /\ ~IsDict(res) THEN Raise("AttributeError")
         ELSE LET d1 == IF Truthy(res) THEN Get(res, "data") ELSE JNull
                  d2 == Get(payload, "data")
              IN Iterate(IF Truthy(d1) THEN d1 ELSE IF Truthy(d2) THEN d2 ELSE JList(<<>>))

\* the body of the loop over data: the pair an item contributes, if any
ItemPair(item) ==
    IF ~IsDict(item) THEN <<>>
    ELSE LET owner == Lower(Strip(StrOrEmpty(Get(item, "owned_by"))))
             mid == Strip(StrOrEmpty(Get(item, "id")))
             name == Strip(IF Truthy(Get(item, "name")) THEN PyStr(Get(item, "name")) ELSE mid)
         IN IF owner \notin ALLOWED_OWNERS THEN <<>>
            ELSE IF mid # "" /\ name # "" THEN << <<name, mid>> >> ELSE <<>>

Item(owner, id, name) == JObj(<<E("id", JStr(id)), E("name", JStr(name)), E("owned_by", JStr(owner))>>)

\* entries of a models list: eligible ones, one whose owner needs trimming and
\* lower-casing, one without a name, one of another owner, one without an id,
\* one repeating a label, and one that is no object
ModelItems ==
    {Item("openai", "gpt-b", "Beta"),
     Item(" OpenAI ", "gpt-a", "alpha"),
     JObj(<<E("id", JStr("ax4")), E("owned_by", JStr("sktax"))>>),
     Item("other", "x", "Other"),
     Item("openai", "", "NoId"),
     Item("sktax", "gpt-b2", "Beta"),
     JStr("junk")}

\* ItemPair tabulated over the entries above, so that it is computed once
ItemPairs == [item \in ModelItems |-> ItemPair(item)]

RECURSIVE CollectPairs(_)
CollectPairs(items) ==
    IF items = <<>> THEN <<>>
    ELSE (IF items[1] \in ModelItems THEN ItemPairs[items[1]] ELSE ItemPair(items[1]))
         \o CollectPairs(Tail(items))

\* r1, r2: the outcomes of the primary request and of the retry (were it made)
FetchModels(base_url, r1, r2) ==
    LET url == base_url \o "/v1/models"
        fb == LinuxFallback(base_url) \o "/v1/models"
        retry == r1.exc # "" /\ Catches(RetryExcs, r1.exc)
        calls == IF retry THEN <<Call("primary", url, r1), Call("retry", fb, r2)>>
                 ELSE <<Call("primary", url, r1)>>
        got == IF retry THEN r2 ELSE r1
        data == IF got.exc # "" THEN Raise(got.exc) ELSE ModelsData(got.val)
    IN [exc |-> data.exc,
        items |-> IF data.exc = "" THEN data.val ELSE <<>>,
        pairs |-> IF data.exc = "" THEN SortPairs(CollectPairs(data.val)) ELSE <<>>,
        calls |-> calls]

(***************************************************************************)
(* CoEModelPicker.update_build_config                                      *)
(***************************************************************************)
\* a refresh that falls back to the default list only when the server answered nothing usable,
\* and leaves the dropdown empty when the fetch raised
MpRefreshedNoFallbackOnError(cfg, current_value, f) ==
    IF f.exc # ""
    THEN [n2i |-> <<>>, cfg |-> [cfg EXCEPT !.options = <<>>, !.value = "", !.refresh_now = FALSE]]
    ELSE LET pairs == IF f.pairs # <<>> THEN f.pairs ELSE FallbackPairs
             n2i == DictFromPairs(pairs)
             names == DictKeys(n2i)
         IN [n2i |-> n2i,
             cfg |-> [cfg EXCEPT !.options = names,
                                 !.value = IF current_value = "" \/ ~InSeq(current_value, names)
                                           THEN names[1] ELSE current_value,
                                 !.refresh_now = FALSE]]

\* a refresh that replaces the selection only when there is none
MpRefreshedKeepsValue(cfg, current_value, f) ==
    LET pairs == IF f.exc = "" /\ f.pairs # <<>> THEN f.pairs ELSE FallbackPairs
        n2i == DictFromPairs(pairs)
        names == DictKeys(n2i)
    IN [n2i |-> n2i,
        cfg |-> [cfg EXCEPT !.options = names,
                            !.value = IF current_value = "" THEN names[1] ELSE current_value,
                            !.refresh_now = FALSE]]

\* the refresh branch: f is what _fetch_models did
MpRefreshed(cfg, current_value, f) ==
    IF f.exc = "" /\ f.pairs # <<>>
    THEN LET n2i == DictFromPairs(f.pairs)
             names == DictKeys(n2i)
         IN [n2i |-> n2i,
             cfg |-> [cfg EXCEPT !.options = names,
                                 !.value = IF current_value = "" \/ ~InSeq(current_value, names)
                                           THEN names[1] ELSE current_value,
                                 !.refresh_now = FALSE]]
    ELSE \* the server answered nothing usable, or the fetch raised: the fallback list
         LET pairs == FallbackPairs
             n2i == DictFromPairs(pairs)
             names == Firsts(pairs)
         IN [n2i |-> n2i,
             cfg |-> [cfg EXCEPT !.options = names,
                                 !.value = IF current_value = "" \/ ~InSeq(current_value, names)
                                           THEN names[1] ELSE current_value,
                                 !.refresh_now = FALSE]]

MpRefreshFields == {"backend_url", "force_https", "refresh_now"}

\* a should_refresh that also refreshes when the selection is edited
MpShouldRefreshOnSelect(cfg, field_name) ==
    \/ ~mp_did_initial_fetch
    \/ field_name \in MpRefreshFields \cup {"model_name"}
    \/ cfg.options = <<>>
    \/ cfg.value = "(click Refresh models now)"

\* should_refresh
MpShouldRefresh(cfg, field_name) ==
    \/ ~mp_did_initial_fetch
    \/ field_name \in MpRefreshFields
    \/ cfg.options = <<>>
    \/ cfg.value = "(click Refresh models now)"

\* the host hands over build_config with the edited field already holding field_value
HostWrite(cfg, field_name, field_value) ==
    CASE field_name = "backend_url" -> [cfg EXCEPT !.backend_url = field_value]
      [] field_name = "force_https" -> [cfg EXCEPT !.force_https = field_value]
      [] field_name = "refresh_now" -> [cfg EXCEPT !.refresh_now = field_value]
      [] field_name = "model_name" -> [cfg EXCEPT !.value = field_value]
      [] OTHER -> cfg

\* the answers to a request: a failure, or one of the bodies given
Answers(bodies) == HttpFailures \cup {Ret(b) : b \in bodies}

NoFetch == [done |-> FALSE, exc |-> "", items |-> <<>>, pairs |-> <<>>]

\* no update_build_config was the last operation
MpNoCall == [made |-> FALSE, field_name |-> "", current_value |-> "", no_options |-> FALSE,
             did_initial_fetch |-> FALSE]

\* the call as an observer sees it: field_name and, on entry, current_value,
\* whether current_options was empty, and _did_initial_fetch
MpCalled(field_name, field_value) ==
    [made |-> TRUE, field_name |-> field_name,
     current_value |-> HostWrite(mp_cfg, field_name, field_value).value,
     no_options |-> mp_cfg.options = <<>>,
     did_initial_fetch |-> mp_did_initial_fetch]

\* results, retries: the answers GET /v1/models may give to the primary request and to the retry
MpUpdated(field_name, field_value, results, retries) ==
    /\ UNCHANGED <<tiVars, tpVars, rtVars, jn>>
    /\ LET cfg == HostWrite(mp_cfg, field_name, field_value)
           current_base == IF field_name = "backend_url" THEN field_value ELSE cfg.backend_url
           current_force_https == IF field_name = "force_https" THEN field_value ELSE cfg.force_https
           base == Normalize(current_base, current_force_https)
           current_value == cfg.value
       IN IF MpShouldRefresh(cfg, field_name)
          THEN \E r1 \in results :
               \E r2 \in (IF r1.exc # "" /\ Catches(RetryExcs, r1.exc) THEN retries ELSE {r1}) :
                  LET f == FetchModels(base, r1, r2)
                      r == MpRefreshed(cfg, current_value, f)
                  IN /\ mp_cfg' = r.cfg
                     /\ mp_name_to_id' = r.n2i
                     /\ mp_did_initial_fetch' = TRUE
                     /\ mp_net' = f.calls
                     /\ mp_fetch' = [done |-> TRUE, exc |-> f.exc, items |-> f.items, pairs |-> f.pairs]
                     /\ mp_req' = JNull
                     /\ UNCHANGED <<mp_last_text, mp_in, mp_reads, mp_nreads>>
          ELSE /\ mp_cfg' = cfg
               /\ mp_net' = <<>>
               /\ mp_fetch' = NoFetch
               /\ mp_req' = JNull
               /\ UNCHANGED <<mp_name_to_id, mp_did_initial_fetch, mp_last_text, mp_in, mp_reads, mp_nreads>>

\* CoEModelPicker.update_build_config
MpUpdateBuildConfig(field_name, field_value, results, retries) ==
    MpUpdated(field_name, field_value, results, retries) /\ mp_call' = MpNoCall

\* CoEModelPicker.update_build_config, the call observed
MpUpdateBuildConfigObserved(field_name, field_value, results, retries) ==
    MpUpdated(field_name, field_value, results, retries) /\ mp_call' = MpCalled(field_name, field_value)

(***************************************************************************)
(* Values the host wires into an input: a Message, a str, a dict, or None  *)
(***************************************************************************)
PyNone == [cls |-> "None", text |-> "", data |-> JNull]
PyMessage(text, data) == [cls |-> "Message", text |-> text, data |-> data]
PyStrVal(x) == [cls |-> "str", text |-> x, data |-> JNull]
PyDict(j) == [cls |-> "dict", text |-> "", data |-> j]

(***************************************************************************)
(* CoEModelPicker._collect_inputs                                          *)
(***************************************************************************)
\* chat_text out of the chat_input value
CollectChatText(msg) ==
    IF msg.cls = "None" THEN ""
    ELSE LET t1 == IF msg.cls = "Message" THEN msg.text ELSE ""
             t2 == IF t1 = "" /\ msg.cls = "Message" /\ IsDict(msg.data)
                   THEN StrOrEmpty(Get(msg.data, "text")) ELSE t1
         IN IF t2 = "" /\ msg.cls = "str" THEN msg.text ELSE t2

CollectInputs(in, cfg) ==
    [chat_text |-> CollectChatText(in.chat_input),
     prompt |-> Strip(in.prompt),
     model_name |-> Strip(cfg.value),
     backend_url |-> Strip(IF cfg.backend_url = "" THEN DEFAULT_BACKEND ELSE cfg.backend_url),
     force_https |-> cfg.force_https,
     enable_tools |-> in.enable_tools,
     tool_choice_auto |-> in.tool_choice_auto]

(***************************************************************************)
(* CoEModelPicker._build_tools_payload                                     *)
(***************************************************************************)
EmptySchema == JObj(<<E("type", JStr("object")), E("properties", JObj(<<>>))>>)

ToolEntry(tool) ==
    IF tool.name # ""
    THEN <<JObj(<<E("type", JStr("function")),
                  E("function", JObj(<<E("name", JStr(tool.name)),
                                       E("description", JStr(tool.description)),
                                       E("parameters", EmptySchema)>>))>>)>>
    ELSE <<>>

RECURSIVE ToolEntries(_)
ToolEntries(tools) == IF tools = <<>> THEN <<>> ELSE ToolEntry(tools[1]) \o ToolEntries(Tail(tools))

\* toolkit: [fails, tools]; a toolkit that cannot be built gives no tools
BuildToolsPayload(toolkit) == IF toolkit.fails THEN <<>> ELSE ToolEntries(toolkit.tools)

(***************************************************************************)
(* CoEModelPicker._call_chat                                               *)
(***************************************************************************)
\* a resolution with no default: the label itself is sent when it is not in the map
ResolveModelIdNoDefault(n2i, model_name) == DictGet(n2i, model_name)

\* model_id: the id of the label, or the first default id
ResolveModelId(n2i, model_name) ==
    LET model_id == DictGet(n2i, model_name)
    IN IF model_id = ""
       THEN (IF FallbackPairs # <<>> THEN FallbackPairs[1][2] ELSE model_id)
       ELSE model_id

\* a request body that asks for tool_choice whether or not it carries tools
ChatPayloadChoiceAlways(n2i, a, toolkit) ==
    LET model_id == ResolveModelId(n2i, a.model_name)
        messages == (IF a.prompt # ""
                     THEN <<JObj(<<E("role", JStr("system")), E("content", JStr(a.prompt))>>)>>
                     ELSE <<>>)
                    \o <<JObj(<<E("role", JStr("user")), E("content", JStr(a.chat_text))>>)>>
        tools_payload == IF a.enable_tools THEN BuildToolsPayload(toolkit) ELSE <<>>
    IN JObj(<<E("model", JStr(IF model_id # "" THEN model_id ELSE a.model_name)),
              E("messages", JList(messages))>>
            \o (IF tools_payload # <<>> THEN <<E("tools", JList(tools_payload))>> ELSE <<>>)
            \o (IF a.tool_choice_auto THEN <<E("tool_choice", JStr("auto"))>> ELSE <<>>))

\* the request body
ChatPayload(n2i, a, toolkit) ==
    LET model_id == ResolveModelId(n2i, a.model_name)
        messages == (IF a.prompt # ""
                     THEN <<JObj(<<E("role", JStr("system")), E("content", JStr(a.prompt))>>)>>
                     ELSE <<>>)
                    \o <<JObj(<<E("role", JStr("user")), E("content", JStr(a.chat_text))>>)>>
        tools_payload == IF a.enable_tools THEN BuildToolsPayload(toolkit) ELSE <<>>
    IN JObj(<<E("model", JStr(IF model_id # "" THEN model_id ELSE a.model_name)),
              E("messages", JList(messages))>>
            \o (IF tools_payload # <<>> THEN <<E("tools", JList(tools_payload))>> ELSE <<>>)
            \o (IF tools_payload # <<>> /\ a.tool_choice_auto
                THEN <<E("tool_choice", JStr("auto"))>> ELSE <<>>))

\* resp[:2000] of the raw JSON
RawBudget == 2000
Truncate(x, n) == IF Len(x) > n THEN SubSeq(x, 1, n) ELSE x

\* the text out of the response: choices[0].message.content, else the raw JSON
ChatText(resp) ==
    LET raw == Truncate(JsonDumps(resp), RawBudget)
    IN IF ~IsDict(resp) THEN raw
       ELSE LET choices == IF Truthy(Get(resp, "choices")) THEN Get(resp, "choices") ELSE JList(<<>>)
            IN IF choices.t # "list" \/ choices.v = <<>> THEN raw
               ELSE LET choice0 == choices.v[1] IN
                    IF ~IsDict(choice0) THEN raw
                    ELSE LET msg == IF Truthy(Get(choice0, "message")) THEN Get(choice0, "message") ELSE JObj(<<>>)
                         IN IF ~IsDict(msg) THEN raw
                            ELSE StrOrEmpty(Get(msg, "content"))

\* the call past the cache check, on the arguments a; r1, r2 the outcomes of the POST and of its retry
CallChat(n2i, a, toolkit, r1, r2) ==
    LET base == Normalize(IF a.backend_url = "" THEN DEFAULT_BACKEND ELSE a.backend_url, a.force_https)
        url == base \o "/v1/chat/completions"
        fb == LinuxFallback(base)
        payload == ChatPayload(n2i, a, toolkit)
        caught == r1.exc # "" /\ Catches(RetryExcs, r1.exc)
        retry == caught /\ base # fb
        got == IF retry THEN r2 ELSE r1
    IN [exc |-> got.exc,
        text |-> IF got.exc = "" THEN ChatText(got.val) ELSE "",
        resp |-> got.val,
        calls |-> IF retry
                  THEN <<Call("primary", url, r1), Call("retry", fb \o "/v1/chat/completions", r2)>>
                  ELSE <<Call("primary", url, r1)>>,
        req |-> payload]

\* CoEModelPicker.get_model_id: the id the cache holds for the trimmed label, else ""
GetModelId(n2i, cfg) == DictGet(n2i, Strip(cfg.value))

\* the last two reads, the newest last
Window(reads, r) == IF Len(reads) < 2 THEN Append(reads, r) ELSE <<reads[2], r>>

\* one read of an output (run_text, run_message): _collect_inputs, then _call_chat;
\* results, retries: the answers POST /v1/chat/completions may give
MpRead(results, retries) ==
    /\ mp_nreads < MaxReads
    /\ UNCHANGED <<tiVars, tpVars, rtVars, jn>>
    /\ mp_nreads' = mp_nreads + 1
    /\ mp_fetch' = NoFetch
    /\ mp_call' = MpNoCall
    /\ LET a == CollectInputs(mp_in, mp_cfg) IN
       IF mp_last_text.some
       THEN /\ mp_reads' = Window(mp_reads, [exc |-> "", text |-> mp_last_text.s, resp |-> JNull, calls |-> 0])
            /\ mp_net' = <<>>
            /\ mp_req' = JNull
            /\ UNCHANGED <<mp_cfg, mp_name_to_id, mp_last_text, mp_did_initial_fetch, mp_in>>
       ELSE \E r1 \in results :
            \E r2 \in (IF r1.exc # "" /\ Catches(RetryExcs, r1.exc) THEN retries ELSE {r1}) :
               LET c == CallChat(mp_name_to_id, a, mp_in.toolkit, r1, r2) IN
               /\ mp_last_text' = IF c.exc = "" THEN Some(c.text) ELSE mp_last_text
               /\ mp_reads' = Window(mp_reads, [exc |-> c.exc, text |-> c.text, resp |-> c.resp, calls |-> Len(c.calls)])
               /\ mp_net' = c.calls
               /\ mp_req' = c.req
               /\ UNCHANGED <<mp_cfg, mp_name_to_id, mp_did_initial_fetch, mp_in>>

\* the host creates the instance anew for a run, over the configuration it keeps
MpNewInstance(inputs) ==
    /\ mp_name_to_id' = <<>>
    /\ mp_last_text' = None
    /\ mp_did_initial_fetch' = FALSE
    /\ mp_in' \in inputs
    /\ mp_net' = <<>>
    /\ mp_reads' = <<>>
    /\ mp_nreads' = 0
    /\ mp_req' = JNull
    /\ mp_fetch' = NoFetch
    /\ mp_call' = MpNoCall
    /\ UNCHANGED <<mp_cfg, tiVars, tpVars, rtVars, jn>>

(***************************************************************************)
(* ToolInvokerFromSelectionMin                                             *)
(***************************************************************************)
\* always the prefix before the path
JoinUrlAlwaysPrefixed(base, path, default_prefix) ==
    LET p == Strip(IF path = "" THEN "/" ELSE path)
    IN RStripCh(base, "/") \o RStripCh(default_prefix, "/") \o (IF StartsWith(p, "/") THEN p ELSE "/" \o p)

\* ToolInvokerFromSelectionMin._join_url
JoinUrl(base, path, default_prefix) ==
    LET b == RStripCh(base, "/")
        p0 == Strip(IF path = "" THEN "/" ELSE path)
        p == IF ~StartsWith(p0, "/") THEN "/" \o p0 ELSE p0
        prefix == RStripCh(default_prefix, "/")
        final_path == IF StartsWith(p, "/tools/") \/ p = "/tools" THEN p
                      ELSE IF ~StartsWith(p, prefix \o "/") THEN prefix \o p ELSE p
    IN b \o final_path

\* ToolInvokerFromSelectionMin._extract_user_text
ExtractUserText(val) ==
    CASE val.cls = "Message" ->
           IF val.text # "" THEN val.text
           ELSE IF IsDict(val.data) THEN StrOrEmpty(Get(val.data, "text")) ELSE ""
      [] val.cls = "str" -> val.text
      [] val.cls \in {"dict", "list"} -> JsonDumps(val.data)
      [] OTHER -> ""

\* a selection and no error, or no selection and the error
Selection(sel) == [sel |-> sel, err |-> ""]
NoSelection(err) == [sel |-> JNull, err |-> err]

\* the selection in what json.loads gave
SelectionIn(obj) ==
    IF obj.exc # "" THEN NoSelection("invalid JSON: " \o obj.exc)
    ELSE IF IsDict(obj.val) THEN Selection(obj.val)
    ELSE NoSelection("selection_json must be a JSON object")

\* ToolInvokerFromSelectionMin._parse_json_str
ParseJsonStr(s) == SelectionIn(JsonLoads(IF s = "" THEN "{}" ELSE s))

\* a parsed selection when the parse gave one, otherwise the next source
Valid(parsed, otherwise) == IF parsed.err = "" THEN parsed ELSE otherwise

\* ToolInvokerFromSelectionMin._extract_selection
ExtractSelection(raw) ==
    CASE raw.cls = "None" -> NoSelection("selection_json is empty")
      [] raw.cls = "Message" ->
           LET data == raw.data
               inner_txt == Get(data, "text")
               none == NoSelection("Message does not contain valid selection JSON")
               from_data ==
                   IF ~IsDict(data) THEN none
                   ELSE IF Truthy(Get(data, "base_url")) \/ Truthy(Get(data, "url_path")) \/ Truthy(Get(data, "name"))
                   THEN Selection(data)
                   ELSE IF inner_txt.t = "str" /\ Strip(inner_txt.s) # ""
                   THEN Valid(ParseJsonStr(inner_txt.s), none)
                   ELSE none
           IN IF Strip(raw.text) # "" THEN Valid(ParseJsonStr(raw.text), from_data) ELSE from_data
      [] raw.cls = "str" -> ParseJsonStr(raw.text)
      [] raw.cls = "dict" -> Selection(raw.data)
      [] OTHER -> NoSelection("selection_json must be Message, JSON string, or object")

\* type(x).__name__
TypeName(x) == IF x.cls = "None" THEN "NoneType" ELSE x.cls

\* sel.get(key, "")
GetOrEmpty(sel, key) == IF HasKey(sel, key) THEN Get(sel, key) ELSE JStr("")

TiMethods == {"GET", "POST", "PUT", "PATCH", "DELETE"}

\* the method of the request (method, then method_eff)
MethodEff(in) ==
    LET method == Upper(Strip(IF in.method_override = "" THEN "POST" ELSE in.method_override))
    IN IF in.force_get_query THEN "GET" ELSE IF method \in TiMethods THEN method ELSE "POST"

\* a _call whose query always carries the user input as input
TiRequestInputWins(method, url, payload) ==
    IF method = "GET"
    THEN LET given == Get(payload, "params")
             params == IF Truthy(given) THEN given ELSE JObj(<<>>)
         IN IF ~IsDict(params) THEN Raise("TypeError")
            ELSE Ret([method |-> method, url |-> url,
                      params |-> IF HasKey(payload, "input")
                                 THEN JObj(SelectSeq(params.v, LAMBDA e : e.k # "input")
                                           \o <<E("input", Get(payload, "input"))>>)
                                 ELSE params,
                      json |-> JNull])
    ELSE Ret([method |-> method, url |-> url, params |-> JNull, json |-> payload])

\* ToolInvokerFromSelectionMin._call up to the request it hands to requests:
\* the request, or the exception dict() raises over params that are no mapping
TiRequest(method, url, payload) ==
    IF method = "GET"
    THEN LET given == Get(payload, "params")
             params == IF Truthy(given) THEN given ELSE JObj(<<>>)
         IN IF ~IsDict(params) THEN Raise("TypeError")
            ELSE Ret([method |-> method, url |-> url,
                      params |-> IF HasKey(payload, "input") /\ ~HasKey(params, "input")
                                 THEN JObj(Append(params.v, E("input", Get(payload, "input"))))
                                 ELSE params,
                      json |-> JNull])
    ELSE Ret([method |-> method, url |-> url, params |-> JNull, json |-> payload])

\* what requests answers: a response with a status and a body, or a raised exception
Response(status, body) == [exc |-> "", status |-> status, body |-> body]
Unreachable(cls) == [exc |-> cls, status |-> 0, body |-> ""]

\* Response.raise_for_status raises HTTPError
IsHttpError(status) == status >= 400 /\ status < 600

\* str(e) of what a request raised: the model keeps the class of e
Detail(r) == IF r.exc # "" THEN r.exc ELSE "HTTPError"

\* one request as the network saw it
TiCall(q, r) == [method |-> q.method, url |-> q.url, params |-> q.params, json |-> q.json,
                 exc |-> r.exc, status |-> r.status, body |-> r.body]

\* the request object of an output text
RequestObj(method, url, tool_name, fallback) ==
    JObj(<<E("method", JStr(method)), E("url", JStr(url)), E("tool", tool_name)>>
         \o (IF fallback THEN <<E("fallback", JStr("trailing-slash"))>> ELSE <<>>))

\* the output object for a response that raise_for_status let through, body what resp.json() gave
AnsweredObj(request, r, body) ==
    JObj(<<E("request", request),
           IF body.exc = "" THEN E("response", body.val) ELSE E("response_text", JStr(r.body))>>)

Answered(request, r) == JsonDumpsIndent(AnsweredObj(request, r, JsonLoads(r.body)), 0)

\* a retry on every error status
RetriedStatusAnyError(status) == IsHttpError(status)

\* the error status that is retried with a trailing slash
RetriedStatus(status) == status = 404

\* what _invoke_core returns or raises, and the requests it issued
TiReturn(text, tool, calls) == [exc |-> "", text |-> text, tool |-> tool, calls |-> calls]
TiRaise(cls) == [exc |-> cls, text |-> "", tool |-> JStr(""), calls |-> <<>>]

\* the output text of _invoke_core for each way the request can end
RequestFailed(request, detail) ==
    JsonDumpsIndent(JObj(<<E("error", JStr("request_failed")), E("request", request),
                           E("detail", JStr(detail))>>), 0)

HttpError(request, r) ==
    JsonDumpsIndent(JObj(<<E("error", JStr("http_error")), E("status", JNum(ToString(r.status))),
                           E("request", request), E("detail", JStr(Detail(r))),
                           E("body_preview", JStr(r.body))>>), 0)

FallbackFailed(method_eff, url, url2, r1, r2) ==
    JsonDumpsIndent(JObj(<<E("error", JStr("HTTP 404 and trailing-slash fallback failed")),
                           E("first_try", JObj(<<E("method", JStr(method_eff)), E("url", JStr(url)),
                                                 E("status", JNum(ToString(r1.status)))>>)),
                           E("second_try", JObj(<<E("url", JStr(url2)), E("error", JStr(Detail(r2)))>>))>>), 0)

\* ToolInvokerFromSelectionMin._invoke_core from the call on; r1, r2: the
\* answers to the first request and to the retry (were they made)
CallTool(method_eff, url, payload, tool_name, tool, r1, r2) ==
    LET url2 == url \o "/"
        q1 == TiRequest(method_eff, url, payload)
        q2 == TiRequest(method_eff, url2, payload)
        request == RequestObj(method_eff, url, tool_name, FALSE)
    IN IF q1.exc # "" THEN TiReturn(RequestFailed(request, q1.exc), tool, <<>>)
       ELSE IF r1.exc # "" THEN TiReturn(RequestFailed(request, r1.exc), tool, <<TiCall(q1.val, r1)>>)
       ELSE IF ~IsHttpError(r1.status) THEN TiReturn(Answered(request, r1), tool, <<TiCall(q1.val, r1)>>)
       ELSE IF RetriedStatus(r1.status) /\ ~EndsWith(url, "/")
       THEN TiReturn(IF r2.exc = "" /\ ~IsHttpError(r2.status)
                     THEN Answered(RequestObj(method_eff, url2, tool_name, TRUE), r2)
                     ELSE FallbackFailed(method_eff, url, url2, r1, r2),
                     tool, <<TiCall(q1.val, r1), TiCall(q2.val, r2)>>)
       ELSE TiReturn(HttpError(request, r1), tool, <<TiCall(q1.val, r1)>>)

\* the payload of the request
ToolPayload(user_text, params_raw, params) ==
    JObj((IF Strip(user_text) # "" THEN <<E("input", JStr(user_text))>> ELSE <<>>)
         \o (IF params_raw # "" THEN <<E("params", params.val)>> ELSE <<>>))

\* ToolInvokerFromSelectionMin._invoke_core once the selection is extracted;
\* params_raw the trimmed params_json and params what json.loads gives for it
InvokeSelected(in, x, base_url, url_path, params_raw, params, r1, r2) ==
    LET sel == x.sel
        tool_name == GetOrEmpty(sel, "name")
        tool == IF Truthy(tool_name) THEN tool_name ELSE JStr("")
    IN IF base_url = "" \/ url_path = ""
       THEN TiReturn(JsonDumps(JObj(<<E("error", JStr("missing base_url or url_path in selection_json")),
                                      E("selection", sel)>>)), tool, <<>>)
       ELSE IF params_raw # "" /\ params.exc # ""
       THEN TiReturn(JsonDumps(JObj(<<E("error", JStr("params_json not valid JSON"))>>)), tool, <<>>)
       ELSE CallTool(MethodEff(in), JoinUrl(base_url, url_path, "/tools"),
                     ToolPayload(ExtractUserText(in.user_input), params_raw, params), tool_name, tool, r1, r2)

\* _invoke_core from the extracted selection x on
InvokeExtracted(in, x, params_raw, r1, r2) ==
    IF x.err # ""
    THEN TiReturn(JsonDumps(JObj(<<E("error", JStr(x.err)),
                                   E("raw_type", JStr(TypeName(in.selection_json)))>>)), JStr(""), <<>>)
    ELSE IF GetOrEmpty(x.sel, "base_url").t # "str" \/ GetOrEmpty(x.sel, "url_path").t # "str"
    THEN TiRaise("AttributeError")
    ELSE InvokeSelected(in, x, Strip(GetOrEmpty(x.sel, "base_url").s), Strip(GetOrEmpty(x.sel, "url_path").s),
                        params_raw, JsonLoads(params_raw), r1, r2)

\* ToolInvokerFromSelectionMin._invoke_core
InvokeCore(in, r1, r2) == InvokeExtracted(in, ExtractSelection(in.selection_json), Strip(in.params_json), r1, r2)

TiIdle == [done |-> FALSE, exc |-> "", cls |-> "", text |-> ""]

\* run_text, run_message: the text _invoke_core returned as c, as a str or as a Message
TiRan(cls, c) ==
    /\ ti_net' = c.calls
    /\ ti_out' = [done |-> TRUE, exc |-> c.exc, cls |-> IF c.exc = "" THEN cls ELSE "", text |-> c.text]
    /\ UNCHANGED <<ti_in, mpVars, tpVars, rtVars, jn>>

\* results, retries: the answers the tool endpoint may give
TiRun(cls, results, retries) ==
    \E r1 \in results :
    \E r2 \in (IF r1.exc = "" /\ IsHttpError(r1.status) THEN retries ELSE {r1}) :
        TiRan(cls, InvokeCore(ti_in, r1, r2))

\* the host sets an input of the node
TiSet(in) ==
    /\ ti_in' = in
    /\ ti_in' # ti_in
    /\ ti_net' = <<>>
    /\ ti_out' = TiIdle
    /\ UNCHANGED <<mpVars, tpVars, rtVars, jn>>

\* one call of _join_url
JoinCall ==
    /\ ~jn.done
    /\ jn' = [jn EXCEPT !.done = TRUE, !.url = JoinUrl(jn.base, jn.path, "/tools")]
    /\ UNCHANGED <<mpVars, tiVars, tpVars, rtVars>>

(***************************************************************************)
(* ToolPickerDropdownSafeMessage                                           *)
(***************************************************************************)
\* ToolPickerDropdownSafeMessage._normalize_base
NormalizeBase(base, force_https) ==
    LET b1 == Strip(base)
        b2 == IF force_https /\ StartsWith(b1, "http://")
              THEN "https://" \o SubSeq(b1, Len("http://") + 1, Len(b1))
              ELSE b1
    IN IF b1 = "" THEN "" ELSE RStripCh(b2, "/")

\* ToolPickerDropdownSafeMessage._linux_fallback
TpLinuxFallback(base) ==
    IF Contains(base, "host.docker.internal")
    THEN Replace(base, "host.docker.internal", "172.17.0.1")
    ELSE base

\* tools = payload["tools"] or [], payload itself when a list, else [payload]
ToolsOf(payload) ==
    IF IsDict(payload) /\ HasKey(payload, "tools")
    THEN (IF Truthy(Get(payload, "tools")) THEN Get(payload, "tools") ELSE JList(<<>>))
    ELSE IF payload.t = "list" THEN payload ELSE JList(<<payload>>)

\* the body of the loop over tools: the normalised tool an entry contributes, if any
NormTool(t) ==
    IF ~IsDict(t) THEN <<>>
    ELSE LET name == Strip(StrOrEmpty(Get(t, "name")))
             url_path == Strip(StrOrEmpty(Get(t, "url_path")))
             desc == Strip(StrOrEmpty(Get(t, "description")))
         IN IF name = "" /\ url_path = "" THEN <<>>
            ELSE <<[name |-> name, url_path |-> url_path, description |-> desc]>>

RECURSIVE NormTools(_)
NormTools(ts) == IF ts = <<>> THEN <<>> ELSE NormTool(ts[1]) \o NormTools(Tail(ts))

\* t["name"] or t["url_path"]
ToolLabel(t) == IF t.name # "" THEN t.name ELSE t.url_path

\* norm.sort(key=lambda x: (x.get("name") or x.get("url_path") or "").lower()): a stable sort
InsertTool(sorted, t) ==
    LET key == Lower(ToolLabel(t))
        before == {i \in 1..Len(sorted) : ~StrLess(key, Lower(ToolLabel(sorted[i])))}
        n == Cardinality(before)
    IN SubSeq(sorted, 1, n) \o <<t>> \o SubSeq(sorted, n + 1, Len(sorted))

RECURSIVE SortToolsAcc(_, _)
SortToolsAcc(sorted, rest) ==
    IF rest = <<>> THEN sorted ELSE SortToolsAcc(InsertTool(sorted, rest[1]), Tail(rest))

SortTools(ts) == SortToolsAcc(<<>>, ts)

\* a fetch that asks the substituted host once more when the retry failed too
FetchToolsRetryAgain(base_url, r1, r2) ==
    LET url == base_url \o "/tools"
        fb == TpLinuxFallback(base_url) \o "/tools"
        retry == r1.exc # "" /\ Catches(RetryExcs, r1.exc)
        got == IF retry THEN r2 ELSE r1
        tools == IF got.exc # "" THEN Raise(got.exc) ELSE Iterate(ToolsOf(got.val))
    IN [exc |-> tools.exc,
        tools |-> IF tools.exc = "" THEN SortTools(NormTools(tools.val)) ELSE <<>>,
        calls |-> <<Call("primary", url, r1)>>
                  \o (IF retry THEN <<Call("retry", fb, r2)>> ELSE <<>>)
                  \o (IF retry /\ r2.exc # "" THEN <<Call("retry", fb, r2)>> ELSE <<>>)]

\* ToolPickerDropdownSafeMessage._fetch_tools; r1, r2: the outcomes of the
\* request and of the retry (were it made)
FetchTools(base_url, r1, r2) ==
    LET url == base_url \o "/tools"
        fb == TpLinuxFallback(base_url) \o "/tools"
        retry == r1.exc # "" /\ Catches(RetryExcs, r1.exc)
        got == IF retry THEN r2 ELSE r1
        tools == IF got.exc # "" THEN Raise(got.exc) ELSE Iterate(ToolsOf(got.val))
    IN [exc |-> tools.exc,
        tools |-> IF tools.exc = "" THEN SortTools(NormTools(tools.val)) ELSE <<>>,
        calls |-> IF retry THEN <<Call("primary", url, r1), Call("retry", fb, r2)>>
                  ELSE <<Call("primary", url, r1)>>]

TpRefreshFields == {"backend_base_url", "force_https", "refresh_now"}

\* the host hands over build_config with the edited field already holding field_value
TpHostWrite(cfg, field_name, field_value) ==
    CASE field_name = "backend_base_url" -> [cfg EXCEPT !.backend_base_url = field_value]
      [] field_name = "force_https" -> [cfg EXCEPT !.force_https = field_value]
      [] field_name = "refresh_now" -> [cfg EXCEPT !.refresh_now = field_value]
      [] field_name = "selected_tool" -> [cfg EXCEPT !.value = field_value]
      [] OTHER -> cfg

TpIdle == [done |-> FALSE, cls |-> "", text |-> ""]

\* no update_build_config was the last operation
TpNoCall == [made |-> FALSE, field_name |-> "", current_value |-> "", no_options |-> FALSE,
             did_initial_fetch |-> FALSE]

\* names = [t["name"] or t["url_path"] for t in tools]
ToolLabels(tools) == [i \in 1..Len(tools) |-> ToolLabel(tools[i])]

\* the refresh of update_build_config: build_config after the fetch f, whose tools have the labels names
TpRefreshedCfg(cfg, f, names) ==
    IF f.exc = ""
    THEN [cfg EXCEPT !.options = names,
                     !.value = IF cfg.value = "" \/ ~InSeq(cfg.value, names)
                               THEN (IF names # <<>> THEN names[1] ELSE "")
                               ELSE cfg.value,
                     !.refresh_now = FALSE]
    ELSE [cfg EXCEPT !.options = <<>>, !.value = "", !.refresh_now = FALSE]

TpRefreshed(cfg, f) ==
    /\ tp_cfg' = TpRefreshedCfg(cfg, f, ToolLabels(f.tools))
    /\ tp_last_tools' = IF f.exc = "" THEN f.tools ELSE tp_last_tools
    /\ tp_did_initial_fetch' = TRUE
    /\ tp_net' = f.calls

\* should_refresh
TpShouldRefresh(cfg, field_name) ==
    \/ ~tp_did_initial_fetch
    \/ field_name \in TpRefreshFields
    \/ cfg.options = <<>>
    \/ cfg.value = "(click Refresh tools now)"

\* update_build_config over the build_config the host handed over and the normalised base
TpUpdate(cfg, field_name, base, results, retries) ==
    /\ tp_out' = TpIdle
    /\ UNCHANGED <<mpVars, tiVars, rtVars, jn>>
    /\ IF TpShouldRefresh(cfg, field_name) /\ base # ""
       THEN \E r1 \in results :
            \E r2 \in (IF r1.exc # "" /\ Catches(RetryExcs, r1.exc) THEN retries ELSE {r1}) :
                TpRefreshed(cfg, FetchTools(base, r1, r2))
       ELSE /\ tp_cfg' = cfg
            /\ tp_net' = <<>>
            /\ UNCHANGED <<tp_last_tools, tp_did_initial_fetch>>

\* ToolPickerDropdownSafeMessage.update_build_config; results, retries: the
\* answers GET /tools may give to the request and to the retry
TpUpdated(field_name, field_value, results, retries) ==
    TpUpdate(TpHostWrite(tp_cfg, field_name, field_value), field_name,
             NormalizeBase(IF field_name = "backend_base_url" THEN field_value ELSE tp_cfg.backend_base_url,
                           IF field_name = "force_https" THEN field_value ELSE tp_cfg.force_https),
             results, retries)

\* the call as an observer sees it: field_name and, on entry, current_value,
\* whether current_options was empty, and _did_initial_fetch
TpCalled(field_name, field_value) ==
    [made |-> TRUE, field_name |-> field_name,
     current_value |-> TpHostWrite(tp_cfg, field_name, field_value).value,
     no_options |-> tp_cfg.options = <<>>,
     did_initial_fetch |-> tp_did_initial_fetch]

\* ToolPickerDropdownSafeMessage.update_build_config
TpUpdateBuildConfig(field_name, field_value, results, retries) ==
    TpUpdated(field_name, field_value, results, retries) /\ tp_call' = TpNoCall

\* ToolPickerDropdownSafeMessage.update_build_config, the call observed
TpUpdateBuildConfigObserved(field_name, field_value, results, retries) ==
    TpUpdated(field_name, field_value, results, retries) /\ tp_call' = TpCalled(field_name, field_value)

\* ToolPickerDropdownSafeMessage._pick_match over a list that is not empty
PickMatch(tools, selected) ==
    LET sel == Strip(selected)
        Matches(t) == LET name == Strip(t.name)
                          url_path == Strip(t.url_path)
                      IN \/ sel = name \/ sel = url_path
                         \/ Lower(sel) = Lower(name) \/ Lower(sel) = Lower(url_path)
        hits == {i \in 1..Len(tools) : Matches(tools[i])}
    IN IF sel = "" \/ hits = {} THEN tools[1]
       ELSE tools[CHOOSE i \in hits : \A j \in hits : i <= j]

\* the selection payload _run emits for a tool
Picked(match, base) ==
    JsonDumps(JObj(<<E("name", JStr(match.name)), E("url_path", JStr(match.url_path)),
                     E("description", JStr(match.description)), E("base_url", JStr(base \o "/tools"))>>))

\* the text _run returns over the tools it has
PickedText(tools, selected, base) ==
    IF tools = <<>>
    THEN JsonDumps(JObj(<<E("error", JStr("tool not found")), E("selected", JStr(selected))>>))
    ELSE Picked(PickMatch(tools, selected), base)

\* the text _run returns after the fetch f
FetchedText(f, selected, base) ==
    IF f.exc # ""
    THEN JsonDumps(JObj(<<E("error", JStr("failed to fetch tools")), E("detail", JStr(f.exc))>>))
    ELSE PickedText(f.tools, selected, base)

TpOut(cls, text) == [done |-> TRUE, cls |-> cls, text |-> text]

\* _run when it fetched the tools
TpRanFetch(cls, f, selected, base) ==
    /\ tp_net' = f.calls
    /\ tp_last_tools' = IF f.exc = "" THEN f.tools ELSE tp_last_tools
    /\ tp_out' = TpOut(cls, FetchedText(f, selected, base))

\* _run over the normalised base and the trimmed selection
TpRan(cls, base, selected, results, retries) ==
    /\ UNCHANGED <<tp_cfg, tp_did_initial_fetch, mpVars, tiVars, rtVars, jn>>
    /\ tp_call' = TpNoCall
    /\ IF base = ""
       THEN /\ tp_out' = TpOut(cls, JsonDumps(JObj(<<E("error", JStr("base_url is empty"))>>)))
            /\ tp_net' = <<>>
            /\ UNCHANGED tp_last_tools
       ELSE IF tp_last_tools # <<>>
       THEN /\ tp_out' = TpOut(cls, PickedText(tp_last_tools, selected, base))
            /\ tp_net' = <<>>
            /\ UNCHANGED tp_last_tools
       ELSE \E r1 \in results :
            \E r2 \in (IF r1.exc # "" /\ Catches(RetryExcs, r1.exc) THEN retries ELSE {r1}) :
                TpRanFetch(cls, FetchTools(base, r1, r2), selected, base)

\* run_message, run_text: _run, and the text as a Message or as a str;
\* results, retries: the answers GET /tools may give
TpRun(cls, results, retries) ==
    TpRan(cls, NormalizeBase(tp_cfg.backend_base_url, tp_cfg.force_https), Strip(tp_cfg.value), results, retries)

\* the host creates the instance anew for a run, over the configuration it keeps
TpNewInstance ==
    /\ tp_last_tools' = <<>>
    /\ tp_did_initial_fetch' = FALSE
    /\ tp_net' = <<>>
    /\ tp_out' = TpIdle
    /\ tp_call' = TpNoCall
    /\ UNCHANGED <<tp_cfg, mpVars, tiVars, rtVars, jn>>

\* the edge from the picker's output to the invoker's selection_json: the host
\* sets the input to what the picker returned
WireSelection ==
    /\ tp_out.done
    /\ TiSet([ti_in EXCEPT !.selection_json = IF tp_out.cls = "Message" THEN PyMessage(tp_out.text, JNull)
                                              ELSE PyStrVal(tp_out.text)])

(***************************************************************************)
(* ToolPickerJsonRouterMessageOnlyV2                                       *)
(***************************************************************************)
RtFallbackKeys == <<"name", "url_path", "description", "base_url">>

\* the keys of the text that json.loads turned into obj: of the object, "value"
\* for text that is no JSON, otherwise what follows in the code
KeysOfText(obj, otherwise) ==
    IF obj.exc # "" THEN <<"value">> ELSE IF IsDict(obj.val) THEN Keys(obj.val) ELSE otherwise

\* ToolPickerJsonRouterMessageOnlyV2._extract_json_keys_from_candidate
ExtractJsonKeysFromCandidate(candidate) ==
    CASE candidate.cls = "dict" ->
           LET txt == Get(candidate.data, "text")
               data == Get(candidate.data, "data")
               rest == IF IsDict(data) THEN Keys(data) ELSE Keys(candidate.data)
           IN IF txt.t = "str" /\ Strip(txt.s) # "" THEN KeysOfText(JsonLoads(txt.s), rest) ELSE rest
      [] candidate.cls = "str" /\ Strip(candidate.text) # "" -> KeysOfText(JsonLoads(candidate.text), <<>>)
      [] OTHER -> <<>>

\* always the first key
RtDefaultValueFirst(keys) == IF keys # <<>> THEN keys[1] ELSE ""

\* default_value = "name" if "name" in keys else (keys[0] if keys else "")
RtDefaultValue(keys) == IF InSeq("name", keys) THEN "name" ELSE IF keys # <<>> THEN keys[1] ELSE ""

\* the host hands over build_config with the edited field already holding field_value
RtHostWrite(cfg, field_name, field_value) ==
    CASE field_name = "tool_message" -> [cfg EXCEPT !.tool_message = field_value]
      [] field_name = "key_for_prompt" -> [cfg EXCEPT !.value = field_value]
      [] field_name = "minify_original" -> [cfg EXCEPT !.minify_original = field_value]
      [] OTHER -> cfg

\* update_build_config from the extracted keys on
RtUpdated(cfg, candidate, extracted, keys) ==
    /\ rt_cfg' = [cfg EXCEPT !.options = keys,
                             !.value = IF cfg.value = "" \/ ~InSeq(cfg.value, keys)
                                       THEN RtDefaultValue(keys) ELSE cfg.value]
    /\ rt_last' = [done |-> TRUE, candidate |-> candidate, extracted |-> extracted, current_value |-> cfg.value]
    /\ UNCHANGED <<rt_in, rt_out, mpVars, tiVars, tpVars, jn>>

\* keys = list(extracted), or fallback_keys when there are none
RtKeys(extracted) == IF extracted = <<>> THEN RtFallbackKeys ELSE extracted

RtExtracted(cfg, candidate, extracted) == RtUpdated(cfg, candidate, extracted, RtKeys(extracted))

\* ToolPickerJsonRouterMessageOnlyV2.update_build_config
RtUpdateBuildConfig(field_name, field_value) ==
    LET cfg == RtHostWrite(rt_cfg, field_name, field_value)
        given == IF field_name = "tool_message" THEN field_value ELSE PyNone
        candidate == IF given.cls = "None" THEN cfg.tool_message ELSE given
    IN RtExtracted(cfg, candidate, ExtractJsonKeysFromCandidate(candidate))

(***************************************************************************)
(* ToolPickerJsonRouterMessageOnlyV2: the outputs                          *)
(***************************************************************************)
\* json.dumps(obj, ensure_ascii=False, separators=(",", ":"))
RECURSIVE JsonDumpsMin(_)
RECURSIVE DumpItemsMin(_)
RECURSIVE DumpEntriesMin(_)
DumpItemsMin(xs) ==
    IF xs = <<>> THEN ""
    ELSE JsonDumpsMin(xs[1]) \o (IF Len(xs) > 1 THEN "," ELSE "") \o DumpItemsMin(Tail(xs))
DumpEntriesMin(es) ==
    IF es = <<>> THEN ""
    ELSE Quoted(es[1].k) \o ":" \o JsonDumpsMin(es[1].val)
         \o (IF Len(es) > 1 THEN "," ELSE "") \o DumpEntriesMin(Tail(es))
JsonDumpsMin(j) ==
    CASE j.t = "list" -> "[" \o DumpItemsMin(j.v) \o "]"
      [] j.t = "obj" -> "{" \o DumpEntriesMin(j.v) \o "}"
      [] OTHER -> JsonDumps(j)

\* a read of an output: the Message it returned, or the exception it raised;
\* data is what _coerce_to_dict gave
RtNoOutput == [op |-> "", exc |-> "", text |-> "", data |-> JNull]
RtReturn(text) == [op |-> "", exc |-> "", text |-> text, data |-> JNull]
RtRaise(cls) == [op |-> "", exc |-> cls, text |-> "", data |-> JNull]

\* try: return json.loads(txt) / except Exception: return {"value": txt}
LoadedOrValue(loaded, txt) ==
    IF loaded.exc = "" THEN loaded.val ELSE JObj(<<E("value", JStr(txt))>>)

\* ToolPickerJsonRouterMessageOnlyV2._coerce_to_dict
CoerceToDict(msg) ==
    CASE msg.cls = "Message" ->
           IF Strip(msg.text) # "" THEN LoadedOrValue(JsonLoads(msg.text), msg.text)
           ELSE IF IsDict(msg.data) THEN msg.data ELSE JObj(<<>>)
      [] msg.cls = "dict" -> msg.data
      [] msg.cls = "str" /\ Strip(msg.text) # "" -> LoadedOrValue(JsonLoads(msg.text), msg.text)
      [] OTHER -> JObj(<<>>)

\* ToolPickerJsonRouterMessageOnlyV2._field_str on the data _coerce_to_dict gave:
\* data.get raises on a value that is no dict
FieldStr(data, key) ==
    IF ~IsDict(data) THEN RtRaise("AttributeError")
    ELSE LET val == IF HasKey(data, key) THEN Get(data, key) ELSE JStr("")
         IN RtReturn(CASE val.t \in {"obj", "list"} -> JsonDumps(val)
                       [] val.t = "null" -> ""
                       [] OTHER -> PyStr(val))

\* ToolPickerJsonRouterMessageOnlyV2._original_json_str
OriginalJsonStr(obj, minify_original) ==
    IF minify_original THEN JsonDumpsMin(obj) ELSE JsonDumpsIndent(obj, 0)

\* get_prompt_value_message on the data _coerce_to_dict gives: with no key
\* selected, "name" or the first key of the data
PromptValue(data, key) ==
    IF key # "" THEN FieldStr(data, key)
    ELSE IF ~IsDict(data) THEN RtRaise("AttributeError")
    ELSE FieldStr(data, IF InSeq("name", Keys(data)) THEN "name"
                        ELSE IF Keys(data) # <<>> THEN Keys(data)[1] ELSE "")

\* the read is over: out is what it gave
RtRan(op, data, out) ==
    /\ rt_out' = [out EXCEPT !.op = op, !.data = data]
    /\ UNCHANGED <<rt_cfg, rt_last, rt_in, mpVars, tiVars, tpVars, jn>>

\* ToolPickerJsonRouterMessageOnlyV2.get_prompt_value_message
RtPromptValue(data) == RtRan("prompt_value", data, PromptValue(data, Strip(rt_in.key_for_prompt)))
GetPromptValueMessage == RtPromptValue(CoerceToDict(rt_in.tool_message))

\* ToolPickerJsonRouterMessageOnlyV2.get_original_message
RtOriginal(data) == RtRan("original", data, RtReturn(OriginalJsonStr(data, rt_in.minify_original)))
GetOriginalMessage == RtOriginal(CoerceToDict(rt_in.tool_message))

\* the host sets an input of the router for the run
RtSet(in) ==
    /\ rt_in' = in
    /\ rt_out' = RtNoOutput
    /\ UNCHANGED <<rt_cfg, rt_last, mpVars, tiVars, tpVars, jn>>

(***************************************************************************)
(* The inputs the model draws from                                         *)
(***************************************************************************)
\* all sequences over S of length at most n
SeqsUpTo(S, n) == UNION {[1..k -> S] : k \in 0..n}

ModelLists == SeqsUpTo(ModelItems, MaxItems)

\* bodies of GET /v1/models: {"data": [...]}, {"result": {"data": [...]}}, and
\* JSON of another shape
OddBodies == {JList(<<>>), JObj(<<E("result", JStr("x"))>>), JObj(<<E("data", JNum("5"))>>)}
ModelBodies ==
    {JObj(<<E("data", JList(l))>>) : l \in ModelLists}
    \cup {JObj(<<E("result", JObj(<<E("data", JList(l))>>))>>) : l \in SeqsUpTo(ModelItems, 1)}
    \cup OddBodies

FewModelBodies ==
    {JObj(<<E("data", JList(<<Item("openai", "gpt-b", "Beta"), Item(" OpenAI ", "gpt-a", "alpha")>>))>>),
     JObj(<<E("data", JList(<<>>))>>)}

BackendUrls == {"http://host.docker.internal:8000", "http://h:8000/", ""}

NoToolkit == [fails |-> FALSE, tools |-> <<>>]

RunInputs(prompts) ==
    {[chat_input |-> PyMessage("hello", JNull), prompt |-> p, enable_tools |-> TRUE,
      tool_choice_auto |-> TRUE, toolkit |-> NoToolkit] : p \in prompts}

Content(c) == JObj(<<E("choices", JList(<<JObj(<<E("message", JObj(<<E("content", c)>>))>>)>>))>>)

\* bodies of POST /v1/chat/completions
ChatBodies == {Content(JStr("hi")), JObj(<<E("choices", JList(<<>>))>>)}

(***************************************************************************)
(* The model picker alone: refreshes over every discovery body             *)
(***************************************************************************)
MpInit(inputs) ==
    /\ mp_cfg = [options |-> <<>>, value |-> "", backend_url |-> DEFAULT_BACKEND,
                 force_https |-> FALSE, refresh_now |-> FALSE]
    /\ mp_name_to_id = <<>>
    /\ mp_last_text = None
    /\ mp_did_initial_fetch = FALSE
    /\ mp_in \in inputs
    /\ mp_net = <<>>
    /\ mp_fetch = NoFetch
    /\ mp_req = JNull
    /\ mp_reads = <<>>
    /\ mp_nreads = 0
    /\ mp_call = MpNoCall

(***************************************************************************)
(* The components as the host first loads them                             *)
(***************************************************************************)
TiInit ==
    /\ ti_in = [selection_json |-> PyStrVal(""), user_input |-> PyNone, params_json |-> "",
                method_override |-> "POST", force_get_query |-> FALSE]
    /\ ti_net = <<>>
    /\ ti_out = TiIdle

TpInit ==
    /\ tp_cfg = [options |-> <<>>, value |-> "", backend_base_url |-> "http://greatcoe.cafe24.com:8080",
                 force_https |-> FALSE, refresh_now |-> FALSE]
    /\ tp_last_tools = <<>>
    /\ tp_did_initial_fetch = FALSE
    /\ tp_net = <<>>
    /\ tp_out = TpIdle
    /\ tp_call = TpNoCall

RtIdle == [done |-> FALSE, candidate |-> PyNone, extracted |-> <<>>, current_value |-> ""]

RtInit ==
    /\ rt_cfg = [tool_message |-> PyNone, options |-> <<>>, value |-> "", minify_original |-> TRUE]
    /\ rt_last = RtIdle
    /\ rt_in = [tool_message |-> PyNone, key_for_prompt |-> "", minify_original |-> TRUE]
    /\ rt_out = RtNoOutput

JnIdle == [base |-> "", path |-> "", url |-> "", done |-> FALSE]

\* the answers GET /v1/models may give
ModelAnswers == Answers(ModelBodies)
FewModelAnswers == Answers(FewModelBodies)
\* the answers POST /v1/chat/completions may give
ChatAnswers == Answers(ChatBodies)

\* the components a specification leaves alone stay as loaded
ToolsIdle == TiInit /\ TpInit /\ RtInit /\ jn = JnIdle

InitModels == MpInit(RunInputs({""})) /\ ToolsIdle

\* the component is mounted: update_build_config with no field
MountModels == MpUpdateBuildConfig("", "", ModelAnswers, FewModelAnswers)
ToggleRefreshModels == MpUpdateBuildConfig("refresh_now", TRUE, ModelAnswers, FewModelAnswers)
SetForceHttpsModels ==
    \E b \in BOOLEAN : MpUpdateBuildConfig("force_https", b, FewModelAnswers, FewModelAnswers)
SelectModel ==
    \E i \in 1..Len(mp_cfg.options) :
        MpUpdateBuildConfig("model_name", mp_cfg.options[i], FewModelAnswers, FewModelAnswers)
NewInstanceModels == MpNewInstance(RunInputs({""}))

NextModels == MountModels \/ ToggleRefreshModels \/ SetForceHttpsModels \/ SelectModel \/ NewInstanceModels

SpecModels == InitModels /\ [][NextModels]_vars

(***************************************************************************)
(* The model picker with its chat call: refreshes, reads of the outputs    *)
(***************************************************************************)
\* the discovery answers of this specification: a list, an empty list, a refused connection
Discovered == {Ret(b) : b \in FewModelBodies} \cup {Raise("URLError")}
\* the answers to the retried POST
Retried == {Ret(Content(JStr("hi"))), Raise("URLError"), Raise("HTTPError")}

InitChat == MpInit(RunInputs({"be brief"})) /\ ToolsIdle

MountChat == MpUpdateBuildConfig("", "", Discovered, Discovered)
SetBackendUrl == \E u \in BackendUrls : MpUpdateBuildConfig("backend_url", u, Discovered, Discovered)
ToggleRefreshChat == MpUpdateBuildConfig("refresh_now", TRUE, Discovered, Discovered)
SelectModelChat ==
    \E i \in 1..Len(mp_cfg.options) : MpUpdateBuildConfig("model_name", mp_cfg.options[i], Discovered, Discovered)
RunText == MpRead(ChatAnswers, Retried)
RunMessage == MpRead(ChatAnswers, Retried)
NewInstanceChat == MpNewInstance(RunInputs({"be brief"}))

NextChat ==
    \/ MountChat \/ SetBackendUrl \/ ToggleRefreshChat \/ SelectModelChat
    \/ RunText \/ RunMessage \/ NewInstanceChat

SpecChat == InitChat /\ [][NextChat]_vars

(***************************************************************************)
(* The tool invoker alone: the host sets its inputs and reads its output   *)
(***************************************************************************)
SelectionObj(base_url, url_path, name) ==
    JObj(<<E("name", JStr(name)), E("url_path", JStr(url_path)), E("description", JStr("")),
           E("base_url", JStr(base_url))>>)

\* values of selection_json: a JSON string, a Message with the JSON as text
\* and a path that ends in a slash, a dict whose path is under /tools, a
\* Message whose data is the selection, nothing, JSON that is no object, an
\* object without base_url, and an object whose base_url is null
TiSelections ==
    {PyStrVal(JsonDumps(SelectionObj("http://h:8000", "/sub", "sub"))),
     PyMessage(JsonDumps(SelectionObj("http://h:8000/", "/sub/", "sub")), JNull),
     PyDict(SelectionObj("http://h:8000", "/tools/echo", "echo")),
     PyMessage("see data", SelectionObj("http://h:8000", "sub", "")),
     PyNone,
     PyStrVal("[1]"),
     PyStrVal(JsonDumps(JObj(<<E("name", JStr("sub"))>>))),
     PyDict(JObj(<<E("base_url", JNull), E("url_path", JStr("/sub"))>>))}

TiUserInputs == {PyMessage("hello", JNull), PyNone}
TiParams == {"", "{\"k\": 1}", "{bad", "[1]"}
TiMethodOverrides == {"POST", " get ", "BREW"}

\* the answers of the tool endpoint to the first request, and to the retry
TiAnswers ==
    {Response(200, "{\"ok\": 1}"), Response(200, "done"), Response(404, "Not Found"),
     Response(500, "boom"), Unreachable("ConnectionError")}
TiRetryAnswers ==
    {Response(200, "{\"ok\": 1}"), Response(200, "done"), Response(404, "Not Found"), Unreachable("Timeout")}

InitInvoker == MpInit(RunInputs({""})) /\ TiInit /\ TpInit /\ RtInit /\ jn = JnIdle

SetSelectionJson == \E s \in TiSelections : TiSet([ti_in EXCEPT !.selection_json = s])
SetUserInput == \E u \in TiUserInputs : TiSet([ti_in EXCEPT !.user_input = u])
SetParamsJson == \E p \in TiParams : TiSet([ti_in EXCEPT !.params_json = p])
SetMethodOverride == \E m \in TiMethodOverrides : TiSet([ti_in EXCEPT !.method_override = m])
SetForceGetQuery == \E b \in BOOLEAN : TiSet([ti_in EXCEPT !.force_get_query = b])
InvokerRunText == TiRun("str", TiAnswers, TiRetryAnswers)
InvokerRunMessage == TiRun("Message", TiAnswers, TiRetryAnswers)

NextInvoker ==
    \/ SetSelectionJson \/ SetUserInput \/ SetParamsJson \/ SetMethodOverride \/ SetForceGetQuery
    \/ InvokerRunText \/ InvokerRunMessage

SpecInvoker == InitInvoker /\ [][NextInvoker]_vars

(***************************************************************************)
(* _join_url alone, over bases and paths                                   *)
(***************************************************************************)
JoinBases == {"http://h", "http://h/", "http://h//", "http://h:8000/tools", "h", "", " http://h/ "}
JoinPaths == {"", "/", "/sub", "sub", "/sub/", "/tools", "/tools/sub", "tools/sub", "/toolsx", " /sub "}

InitJoin ==
    /\ MpInit(RunInputs({""})) /\ TiInit /\ TpInit /\ RtInit
    /\ jn \in {[base |-> b, path |-> p, url |-> "", done |-> FALSE] : b \in JoinBases, p \in JoinPaths}

NextJoin == JoinCall

SpecJoin == InitJoin /\ [][NextJoin]_vars

(***************************************************************************)
(* The tool picker wired to the tool invoker                               *)
(***************************************************************************)
Tool(name, url_path, description) ==
    JObj(<<E("name", JStr(name)), E("url_path", JStr(url_path)), E("description", JStr(description))>>)

\* bodies of GET /tools: {"tools": [...]}, a bare list, and no tools
ToolBodies ==
    {JObj(<<E("tools", JList(<<Tool("sub", "/sub", "a sub graph"), Tool("Echo", "/tools/echo", "")>>))>>),
     JList(<<JObj(<<E("url_path", JStr("/only"))>>)>>),
     JObj(<<E("tools", JList(<<>>))>>)}

\* the answers GET /tools may give, and gives to the retry
ToolAnswers == {Ret(b) : b \in ToolBodies} \cup {Raise("URLError")}
ToolRetryAnswers ==
    {Ret(JObj(<<E("tools", JList(<<Tool("sub", "/sub", "a sub graph")>>))>>)), Raise("URLError")}
ToolBaseUrls == {"http://h:8000", "http://host.docker.internal:8000/", ""}

\* the answers of the tool endpoint in this specification
PickedAnswers == {Response(200, "{\"ok\": 1}"), Response(404, "Not Found")}
PickedRetryAnswers == {Response(200, "{\"ok\": 1}")}

InitTools == MpInit(RunInputs({""})) /\ TiInit /\ TpInit /\ RtInit /\ jn = JnIdle

MountTools == TpUpdateBuildConfig("", "", ToolAnswers, ToolRetryAnswers)
SetBaseUrlTools == \E u \in ToolBaseUrls : TpUpdateBuildConfig("backend_base_url", u, ToolAnswers, ToolRetryAnswers)
ToggleRefreshTools == TpUpdateBuildConfig("refresh_now", TRUE, ToolAnswers, ToolRetryAnswers)
SelectTool ==
    \E i \in 1..Len(tp_cfg.options) :
        TpUpdateBuildConfig("selected_tool", tp_cfg.options[i], ToolAnswers, ToolRetryAnswers)
PickerRunMessage == TpRun("Message", ToolAnswers, ToolRetryAnswers)
PickerRunText == TpRun("str", ToolAnswers, ToolRetryAnswers)
NewInstanceTools == TpNewInstance
InvokePicked == TiRun("Message", PickedAnswers, PickedRetryAnswers)

NextTools ==
    \/ MountTools \/ SetBaseUrlTools \/ ToggleRefreshTools \/ SelectTool
    \/ PickerRunMessage \/ PickerRunText \/ NewInstanceTools
    \/ WireSelection \/ InvokePicked

SpecTools == InitTools /\ [][NextTools]_vars

(***************************************************************************)
(* The router's dropdown                                                   *)
(***************************************************************************)
\* a Message as the host serialises it into build_config
MessageDict(text, data) == PyDict(JObj(<<E("text", JStr(text)), E("data", data)>>))

NoData == JObj(<<>>)

\* values of tool_message: messages whose text is a JSON object, the empty
\* object, no JSON, or JSON that is no object, with and without data; a plain
\* mapping; strings; a Message object; nothing
RtCandidates ==
    {MessageDict(JsonDumps(JObj(<<E("name", JStr("a")), E("url_path", JStr("b"))>>)), NoData),
     MessageDict(JsonDumps(JObj(<<E("url_path", JStr("b"))>>)), NoData),
     MessageDict(JsonDumps(JObj(<<E("url_path", JStr("b")), E("name", JStr("a"))>>)), NoData),
     MessageDict(JsonDumps(SelectionObj("http://h:8000/tools", "/sub", "sub")), NoData),
     MessageDict("{}", JNull),
     MessageDict("not json", JObj(<<E("k", JStr("v"))>>)),
     MessageDict("[1]", JObj(<<E("description", JStr("d"))>>)),
     MessageDict("", JObj(<<E("base_url", JStr("http://h")), E("name", JStr("n"))>>)),
     MessageDict("[1]", JNull),
     PyDict(JObj(<<E("id", JNum("7")), E("name", JStr("x"))>>)),
     PyStrVal(JsonDumps(JObj(<<E("url_path", JStr("b")), E("description", JStr("d"))>>))),
     PyStrVal("plain"),
     PyStrVal("5"),
     PyStrVal(""),
     PyMessage("{\"name\": \"a\"}", JNull),
     PyNone}

InitRouter == MpInit(RunInputs({""})) /\ TiInit /\ TpInit /\ RtInit /\ jn = JnIdle

MountRouter == RtUpdateBuildConfig("", PyNone)
SetToolMessage == \E c \in RtCandidates : RtUpdateBuildConfig("tool_message", c)
SelectKey == \E i \in 1..Len(rt_cfg.options) : RtUpdateBuildConfig("key_for_prompt", rt_cfg.options[i])
SetMinifyOriginal == \E b \in BOOLEAN : RtUpdateBuildConfig("minify_original", b)

NextRouter == MountRouter \/ SetToolMessage \/ SelectKey \/ SetMinifyOriginal

SpecRouter == InitRouter /\ [][NextRouter]_vars

(***************************************************************************)
(* The router's outputs: the host sets the inputs and reads the outputs    *)
(***************************************************************************)
\* an object with a value of every JSON type
Mixed ==
    JObj(<<E("name", JStr("sub")), E("n", JNum("7")), E("ok", JBool("true")), E("none", JNull),
           E("list", JList(<<JNum("1")>>)), E("obj", JObj(<<E("k", JStr("v"))>>))>>)

\* values of tool_message at run time: Messages whose text is a JSON object,
\* no JSON, JSON that is no object (a list, a number, a string, null), or
\* empty, with and without a data mapping; a mapping; strings; nothing
RtMessages ==
    {PyMessage(JsonDumps(SelectionObj("http://h:8000/tools", "/sub", "sub")), JNull),
     PyMessage(JsonDumps(Mixed), JNull),
     PyMessage(JsonDumps(JObj(<<E("url_path", JStr("b"))>>)), JObj(<<E("name", JStr("n"))>>)),
     PyMessage("not json", JObj(<<E("k", JStr("v"))>>)),
     PyMessage("not json", JNull),
     PyMessage("[1]", JObj(<<E("description", JStr("d"))>>)),
     PyMessage("5", JNull),
     PyMessage("\"name\"", JNull),
     PyMessage("null", JNull),
     PyMessage("", JObj(<<E("base_url", JStr("http://h")), E("name", JStr("n"))>>)),
     PyMessage("", JNull),
     PyDict(JObj(<<E("id", JNum("7")), E("name", JStr("x"))>>)),
     PyStrVal(JsonDumps(JObj(<<E("url_path", JStr("b")), E("description", JStr("d"))>>))),
     PyStrVal("plain"),
     PyStrVal("[1]"),
     PyStrVal(""),
     PyNone}

RtKeyChoices == {"", "name", " url_path ", "missing", "n", "ok", "none", "list", "obj", "value"}

InitRouterRun == MpInit(RunInputs({""})) /\ TiInit /\ TpInit /\ RtInit /\ jn = JnIdle

SetRunMessage == \E m \in RtMessages : RtSet([rt_in EXCEPT !.tool_message = m])
SetKeyForPrompt == \E k \in RtKeyChoices : RtSet([rt_in EXCEPT !.key_for_prompt = k])
SetRunMinify == \E b \in BOOLEAN : RtSet([rt_in EXCEPT !.minify_original = b])

NextRouterRun ==
    \/ SetRunMessage \/ SetKeyForPrompt \/ SetRunMinify
    \/ GetPromptValueMessage \/ GetOriginalMessage

SpecRouterRun == InitRouterRun /\ [][NextRouterRun]_vars

(***************************************************************************)
(* The chat call over the bodies the backend may answer with               *)
(***************************************************************************)
\* x doubled n times
RECURSIVE Doubled(_, _)
Doubled(x, n) == IF n = 0 THEN x ELSE Doubled(x \o x, n - 1)

\* values of content, of message, of choices[0] and of choices
ReplyContents == {JStr("hi"), JStr(""), JNull, JNum("5"), JBool("false"), JList(<<JStr("a")>>)}
ReplyMessages ==
    {JObj(<<E("content", c)>>) : c \in ReplyContents}
    \cup {JObj(<<E("role", JStr("assistant")), E("content", JStr("hi"))>>),
          JObj(<<E("role", JStr("assistant"))>>), JObj(<<>>), JNull, JStr("m"), JList(<<JNum("1")>>)}
ReplyChoices ==
    {JObj(<<E("message", m)>>) : m \in ReplyMessages}
    \cup {JObj(<<E("index", JNum("0"))>>), JObj(<<>>), JNull, JStr("c"), JNum("1")}
ReplyChoiceLists ==
    {JList(<<c>>) : c \in ReplyChoices}
    \cup {JList(<<JObj(<<E("message", JObj(<<E("content", JStr("first"))>>))>>),
                  JObj(<<E("message", JObj(<<E("content", JStr("second"))>>))>>)>>),
          JList(<<>>), JNull, JStr("abc"), JNum("3"), JObj(<<E("0", JStr("x"))>>)}

\* bodies of POST /v1/chat/completions: with choices of every shape, without
\* choices, JSON that is no object, and one longer than the raw budget
ReplyBodies ==
    {JObj(<<E("choices", l)>>) : l \in ReplyChoiceLists}
    \cup {JObj(<<E("error", JStr("overloaded"))>>), JObj(<<>>), JList(<<>>), JStr("ok"), JNull, JNum("7"),
          JObj(<<E("choices", JList(<<>>)), E("usage", JStr(Doubled("0123456789", 8)))>>)}

ReplyAnswers == {Ret(b) : b \in ReplyBodies}

InitReplies == MpInit(RunInputs({""})) /\ ToolsIdle

MountReplies == MpUpdateBuildConfig("", "", Discovered, Discovered)
ReadReply == MpRead(ReplyAnswers, ReplyAnswers)
NewInstanceReplies == MpNewInstance(RunInputs({""}))

NextReplies == MountReplies \/ ReadReply \/ NewInstanceReplies

SpecReplies == InitReplies /\ [][NextReplies]_vars

(***************************************************************************)
(* One operation of each component, over answers that succeed and answers  *)
(* that fail                                                               *)
(***************************************************************************)
CallsModelAnswers ==
    {Ret(JObj(<<E("data", JList(<<Item("openai", "gpt-b", "Beta")>>))>>)), Raise("URLError"),
     Raise("JSONDecodeError")}
CallsChatAnswers == {Ret(Content(JStr("hi"))), Raise("URLError")}
CallsToolAnswers ==
    {Ret(JObj(<<E("tools", JList(<<Tool("sub", "/sub", "a sub graph")>>))>>)), Raise("URLError")}
CallsEndpointAnswers == {Response(200, "{\"ok\": 1}"), Response(404, "Not Found"), Response(500, "boom")}
CallsEndpointRetryAnswers == {Response(404, "Not Found")}

InitCalls == MpInit(RunInputs({""})) /\ ToolsIdle

RefreshModelsCalls == MpUpdateBuildConfig("refresh_now", TRUE, CallsModelAnswers, CallsModelAnswers)
ReadCalls == MpRead(CallsChatAnswers, CallsChatAnswers)
RefreshToolsCalls == TpUpdateBuildConfig("refresh_now", TRUE, CallsToolAnswers, CallsToolAnswers)
PickerRunCalls == TpRun("Message", CallsToolAnswers, CallsToolAnswers)
WireCalls == WireSelection
InvokeCalls == TiRun("Message", CallsEndpointAnswers, CallsEndpointRetryAnswers)

NextCalls ==
    \/ RefreshModelsCalls \/ ReadCalls
    \/ RefreshToolsCalls \/ PickerRunCalls
    \/ WireCalls \/ InvokeCalls

SpecCalls == InitCalls /\ [][NextCalls]_vars

(***************************************************************************)
(* The chat call's request body: reads over prompts, tools and switches    *)
(***************************************************************************)
\* what the toolkit of the component may give: no tool, a failure to build,
\* a tool, a tool with no name, and a tool with no name before a named one
Toolkits ==
    {NoToolkit,
     [fails |-> TRUE, tools |-> <<[name |-> "Call_Agent", description |-> "calls the agent"]>>],
     [fails |-> FALSE, tools |-> <<[name |-> "Call_Agent", description |-> "calls the agent"]>>],
     [fails |-> FALSE, tools |-> <<[name |-> "", description |-> "nameless"]>>],
     [fails |-> FALSE, tools |-> <<[name |-> "", description |-> "nameless"],
                                   [name |-> "lookup", description |-> ""]>>]}

\* the system prompt: none, blank, text
Prompts == {"", "  ", "be brief"}

PayloadInputs ==
    {[chat_input |-> c, prompt |-> p, enable_tools |-> e, tool_choice_auto |-> t, toolkit |-> k] :
        c \in {PyMessage("hello", JNull), PyNone}, p \in Prompts, e \in BOOLEAN, t \in BOOLEAN,
        k \in Toolkits}

PayloadAnswers == {Ret(Content(JStr("hi"))), Raise("URLError")}
PayloadRetryAnswers == {Ret(Content(JStr("hi")))}
PayloadDiscovered == {Ret(b) : b \in FewModelBodies}

InitPayload == MpInit(PayloadInputs) /\ ToolsIdle

MountPayload == MpUpdateBuildConfig("", "", PayloadDiscovered, PayloadDiscovered)
SelectModelPayload ==
    \E i \in 1..Len(mp_cfg.options) :
        MpUpdateBuildConfig("model_name", mp_cfg.options[i], PayloadDiscovered, PayloadDiscovered)
ReadPayload == MpRead(PayloadAnswers, PayloadRetryAnswers)
NewInstancePayload == MpNewInstance(PayloadInputs)

NextPayload == MountPayload \/ SelectModelPayload \/ ReadPayload \/ NewInstancePayload

SpecPayload == InitPayload /\ [][NextPayload]_vars

(***************************************************************************)
(* The two pickers in the editor: every update_build_config observed       *)
(***************************************************************************)
\* what GET /v1/models and GET /tools answer in this specification: a list,
\* for the tools also an empty list, and a refused connection
ConfigModelAnswers ==
    {Ret(JObj(<<E("data", JList(<<Item("openai", "gpt-b", "Beta"), Item(" OpenAI ", "gpt-a", "alpha")>>))>>)),
     Raise("URLError")}
ConfigToolAnswers ==
    {Ret(JObj(<<E("tools", JList(<<Tool("sub", "/sub", "a sub graph"), Tool("Echo", "/tools/echo", "")>>))>>)),
     Ret(JObj(<<E("tools", JList(<<>>))>>)),
     Raise("URLError")}
ConfigRetryAnswers == {Raise("URLError")}
\* the base URL is cleared, or set again
ConfigBaseUrls == {"", "http://h:8000"}

InitConfig == MpInit(RunInputs({""})) /\ TiInit /\ TpInit /\ RtInit /\ jn = JnIdle

MountModelsConfig == MpUpdateBuildConfigObserved("", "", ConfigModelAnswers, ConfigRetryAnswers)
SetBackendUrlConfig ==
    MpUpdateBuildConfigObserved("backend_url", "", ConfigModelAnswers, ConfigRetryAnswers)
ToggleRefreshModelsConfig ==
    MpUpdateBuildConfigObserved("refresh_now", TRUE, ConfigModelAnswers, ConfigRetryAnswers)
SelectModelConfig ==
    \E i \in 1..Len(mp_cfg.options) :
        MpUpdateBuildConfigObserved("model_name", mp_cfg.options[i], ConfigModelAnswers, ConfigRetryAnswers)
NewModelsInstanceConfig == MpNewInstance(RunInputs({""}))

MountToolsConfig == TpUpdateBuildConfigObserved("", "", ConfigToolAnswers, ConfigRetryAnswers)
SetBaseUrlConfig ==
    \E u \in ConfigBaseUrls :
        TpUpdateBuildConfigObserved("backend_base_url", u, ConfigToolAnswers, ConfigRetryAnswers)
ToggleRefreshToolsConfig ==
    TpUpdateBuildConfigObserved("refresh_now", TRUE, ConfigToolAnswers, ConfigRetryAnswers)
SelectToolConfig ==
    \E i \in 1..Len(tp_cfg.options) :
        TpUpdateBuildConfigObserved("selected_tool", tp_cfg.options[i], ConfigToolAnswers, ConfigRetryAnswers)
NewToolsInstanceConfig == TpNewInstance

NextConfig ==
    \/ MountModelsConfig \/ SetBackendUrlConfig \/ ToggleRefreshModelsConfig \/ SelectModelConfig
    \/ NewModelsInstanceConfig
    \/ MountToolsConfig \/ SetBaseUrlConfig \/ ToggleRefreshToolsConfig \/ SelectToolConfig
    \/ NewToolsInstanceConfig

SpecConfig == InitConfig /\ [][NextConfig]_vars

(***************************************************************************)
(* The tool invoker's request: methods, query and body                     *)
(***************************************************************************)
\* method_override as the host may hold it: one of the five, in lower case,
\* padded, in mixed case, none of the five, empty
MethodsOverrides == {"POST", " get ", "delete", " Patch", "BREW", ""}
\* params_json: none, an object that defines input, one that does not, a list
MethodsParams == {"", "{\"input\": \"x\"}", "{\"k\": 1}", "[1]"}
MethodsUserInputs == {PyMessage("hello", JNull), PyNone}
MethodsAnswers == {Response(200, "{\"ok\": 1}"), Response(404, "Not Found")}
MethodsRetryAnswers == {Response(200, "{\"ok\": 1}")}

InitMethods ==
    /\ MpInit(RunInputs({""})) /\ TpInit /\ RtInit /\ jn = JnIdle
    /\ ti_in = [selection_json |-> PyDict(SelectionObj("http://h:8000", "/sub", "sub")), user_input |-> PyNone,
                params_json |-> "", method_override |-> "POST", force_get_query |-> FALSE]
    /\ ti_net = <<>>
    /\ ti_out = TiIdle

SetUserInputMethods == \E u \in MethodsUserInputs : TiSet([ti_in EXCEPT !.user_input = u])
SetParamsJsonMethods == \E p \in MethodsParams : TiSet([ti_in EXCEPT !.params_json = p])
SetMethodOverrideMethods == \E m \in MethodsOverrides : TiSet([ti_in EXCEPT !.method_override = m])
SetForceGetQueryMethods == \E b \in BOOLEAN : TiSet([ti_in EXCEPT !.force_get_query = b])
InvokeMethods == TiRun("Message", MethodsAnswers, MethodsRetryAnswers)

NextMethods ==
    \/ SetUserInputMethods \/ SetParamsJsonMethods \/ SetMethodOverrideMethods \/ SetForceGetQueryMethods
    \/ InvokeMethods

SpecMethods == InitMethods /\ [][NextMethods]_vars

Spec == SpecModels

(***************************************************************************)
(* Claims on the model picker                                              *)
(***************************************************************************)
SeqSet(xs) == {xs[i] : i \in 1..Len(xs)}
ItemsOf(xs) == {xs[i] : i \in 1..Len(xs)}

\* the label the dropdown shows for a models entry: its name, or its id when it has no name
LabelOf(item) ==
    IF StrOrEmpty(Get(item, "name")) # "" THEN Strip(Get(item, "name").s) ELSE Strip(StrOrEmpty(Get(item, "id")))

\* an entry the picker offers: an object of an allowed owner (trimmed, in any case) that has an id
Offered(item) ==
    /\ IsDict(item)
    /\ Lower(Strip(StrOrEmpty(Get(item, "owned_by")))) \in ALLOWED_OWNERS
    /\ Strip(StrOrEmpty(Get(item, "id"))) # ""
    /\ LabelOf(item) # ""

\* an entry whose owned_by is in the allow-list as it stands
OwnerAllowed(item) == IsDict(item) /\ StrOrEmpty(Get(item, "owned_by")) \in ALLOWED_OWNERS

\* the last operation was a refresh that got a non-empty result
RefreshedNonEmpty == mp_fetch.done /\ mp_fetch.exc = "" /\ mp_fetch.pairs # <<>>

\* xs is in ascending order of the lower-cased labels, and no label is in it twice
SortedNoDup(xs) ==
    /\ \A i, j \in 1..Len(xs) : i < j => ~StrLess(Lower(xs[j]), Lower(xs[i]))
    /\ \A i, j \in 1..Len(xs) : i # j => xs[i] # xs[j]

\* C1 (as amended): after a refresh with a non-empty result the model_name options are
\* exactly the labels of the payload items that are objects with a non-empty id and whose
\* owned_by, trimmed and lower-cased, is in the allow-list; they are in case-insensitive
\* ascending order of the label and no label occurs twice.
C1_OptionsAreOfferedSorted ==
    RefreshedNonEmpty =>
        /\ SeqSet(mp_cfg.options) = {LabelOf(it) : it \in {x \in ItemsOf(mp_fetch.items) : Offered(x)}}
        /\ SortedNoDup(mp_cfg.options)

\* C1 as stated: the options are the labels of the items whose owned_by is in the
\* allow-list, sorted and without duplicates.
C1_OptionsAreOwnerAllowed ==
    RefreshedNonEmpty =>
        /\ SeqSet(mp_cfg.options) = {LabelOf(it) : it \in {x \in ItemsOf(mp_fetch.items) : OwnerAllowed(x)}}
        /\ SortedNoDup(mp_cfg.options)

\* a refresh got two offered entries whose order depends on the case of the labels
C1_Witness ==
    /\ RefreshedNonEmpty
    /\ Len(mp_fetch.items) = 2
    /\ mp_fetch.items[1] = Item("openai", "gpt-b", "Beta")
    /\ mp_cfg.options = <<"alpha", "Beta">>

\* the last operation was a refresh whose discovery call failed or gave no offered entry
RefreshedNothing ==
    /\ mp_fetch.done
    /\ \/ mp_fetch.exc # ""
       \/ {x \in ItemsOf(mp_fetch.items) : Offered(x)} = {}

\* C2: when the discovery call of a refresh fails, or yields no eligible item, the
\* model_name options are the default list of _fallback_pairs in its order, that list
\* is not empty, and the label-to-id cache holds exactly the default pairs.
C2_FallbackList ==
    RefreshedNothing =>
        /\ mp_cfg.options = [i \in 1..Len(FallbackPairs) |-> FallbackPairs[i][1]]
        /\ mp_cfg.options # <<>>
        /\ mp_name_to_id = FallbackPairs

\* the primary request and the retry of a refresh both failed
C2_Witness ==
    /\ RefreshedNothing
    /\ Len(mp_net) = 2
    /\ mp_net[1].exc # "" /\ mp_net[2].exc # ""
    /\ mp_cfg.options[1] = "GPT-4o Mini"

\* the label _call_chat was given
SelectedLabel == Strip(mp_cfg.value)

\* C3: the model field of the request body is the id mapped to the selected label when
\* the label is a key of the label-to-id map, and the id of the first default pair when
\* it is not (the empty label and the empty map included).
C3_ModelField ==
    mp_req # JNull =>
        LET model == Get(mp_req, "model") IN
        /\ model.t = "str"
        /\ InSeq(SelectedLabel, DictKeys(mp_name_to_id))
             => \E i \in 1..Len(mp_name_to_id) : mp_name_to_id[i] = <<SelectedLabel, model.s>>
        /\ ~InSeq(SelectedLabel, DictKeys(mp_name_to_id)) => model.s = "gpt-4o-mini"

\* a chat call resolved a label through the map
C3_Witness ==
    /\ mp_req # JNull
    /\ SelectedLabel = "alpha"
    /\ Get(mp_req, "model") = JStr("gpt-a")

\* C4: two sequential reads of the outputs of one instance return the same text, the
\* second issues no request, and both together issue one POST, or two when the first
\* fell back to the substituted host.
C4_ReadOnce ==
    Len(mp_reads) = 2 =>
        /\ mp_reads[1].exc = "" /\ mp_reads[2].exc = ""
        /\ mp_reads[1].text = mp_reads[2].text
        /\ mp_reads[2].calls = 0
        /\ mp_reads[1].calls + mp_reads[2].calls \in {1, 2}

\* C5: a retry follows only a primary request that failed at transport level, never one
\* that completed with an HTTP error status.
C5_RetryOnlyOnTransportFailure ==
    \A i \in 1..Len(mp_net) :
        mp_net[i].role = "retry" => i > 1 /\ mp_net[i - 1].exc \in TransportExcs

\* the configured base URL as the last operation normalised it
ConfiguredBase == Normalize(mp_cfg.backend_url, mp_cfg.force_https)

\* r is p with one occurrence of the host token replaced by the gateway address
RewrittenOnce(p, r) ==
    \E i \in 1..Len(p) :
        /\ SubSeq(p, i, i + Len("host.docker.internal") - 1) = "host.docker.internal"
        /\ r = SubSeq(p, 1, i - 1) \o "172.17.0.1" \o SubSeq(p, i + Len("host.docker.internal"), Len(p))

\* C9: _linux_fallback replaces host.docker.internal by 172.17.0.1 and leaves the rest of
\* the URL as it is, returns a URL without the token unchanged, and the rewritten URL is
\* the target of the retry only: the primary request goes to the configured base.
C9_FallbackRewrite ==
    /\ LinuxFallback("http://host.docker.internal:8000/x") = "http://172.17.0.1:8000/x"
    /\ \A i \in 1..Len(mp_net) :
        /\ mp_net[i].role = "primary" => StartsWith(mp_net[i].url, ConfiguredBase \o "/v1/")
        /\ mp_net[i].role = "retry" =>
             IF Contains(mp_net[1].url, "host.docker.internal")
             THEN RewrittenOnce(mp_net[1].url, mp_net[i].url)
             ELSE mp_net[i].url = mp_net[1].url

\* a retry went to the rewritten URL
C9_Witness ==
    /\ Len(mp_net) = 2
    /\ mp_net[1].url = "http://host.docker.internal:8000/v1/chat/completions"
    /\ mp_net[2].role = "retry"
    /\ mp_net[2].url = "http://172.17.0.1:8000/v1/chat/completions"

(***************************************************************************)
(* Claims on the tool invoker, the tool picker and the router              *)
(***************************************************************************)
\* the first request of the last run was answered with an HTTP error status
FirstWasHttpError == ti_out.done /\ ti_net # <<>> /\ ti_net[1].exc = "" /\ IsHttpError(ti_net[1].status)

\* the same request but for its URL
SameRequest(a, b) == a.method = b.method /\ a.params = b.params /\ a.json = b.json

\* the object the returned text is the JSON of
ReturnedObj == JsonLoads(ti_out.text).val

\* the returned object tells the outcome of the retry: its body, or its failure
RetryOutcomeReturned(retry, out) ==
    IF retry.exc = "" /\ ~IsHttpError(retry.status)
    THEN /\ Get(Get(out, "request"), "url") = JStr(retry.url)
         /\ IF JsonLoads(retry.body).exc = ""
            THEN Get(out, "response") = JsonLoads(retry.body).val
            ELSE Get(out, "response_text") = JStr(retry.body)
    ELSE /\ Get(out, "error") = JStr("HTTP 404 and trailing-slash fallback failed")
         /\ Get(Get(out, "second_try"), "url") = JStr(retry.url)

\* C6 (as amended): when the first request of _invoke_core is answered with
\* HTTP 404 and its URL does not already end in a slash, exactly one retry
\* is issued, the same request to the URL with a slash appended, and the
\* outcome of the retry is what is returned; when the URL already ends in a
\* slash, and for every other HTTP error status, no retry is issued and the
\* http_error object is returned.
C6_RetryOn404 ==
    FirstWasHttpError =>
        IF ti_net[1].status = 404 /\ ~EndsWith(ti_net[1].url, "/")
        THEN /\ Len(ti_net) = 2
             /\ ti_net[2].url = ti_net[1].url \o "/"
             /\ SameRequest(ti_net[1], ti_net[2])
             /\ ti_out.exc = ""
             /\ RetryOutcomeReturned(ti_net[2], ReturnedObj)
        ELSE /\ Len(ti_net) = 1
             /\ ti_out.exc = ""
             /\ Get(ReturnedObj, "error") = JStr("http_error")
             /\ Get(ReturnedObj, "status") = JNum(ToString(ti_net[1].status))

\* C6 as stated: every first answer of HTTP 404 is followed by exactly one
\* retry with a slash appended, every other error status by none.
C6_RetryOnEvery404 ==
    FirstWasHttpError =>
        IF ti_net[1].status = 404
        THEN Len(ti_net) = 2 /\ ti_net[2].url = ti_net[1].url \o "/"
        ELSE Len(ti_net) = 1

\* a 404 was retried with the slash and the retry was answered with a body
C6_Witness ==
    /\ FirstWasHttpError
    /\ Len(ti_net) = 2
    /\ ti_net[1].status = 404
    /\ ti_net[2].status = 200
    /\ HasKey(ReturnedObj, "response")

\* how often t occurs in s
Occurrences(s, t) == Cardinality({i \in 1..(Len(s) - Len(t) + 1) : SubSeq(s, i, i + Len(t) - 1) = t})

\* C7: every URL the invoker requests for a selection payload that the tool
\* picker's _run emitted holds the mount segment /tools exactly once, and
\* never /tools/tools.
C7_ToolsOnce ==
    \A i \in 1..Len(ti_net) :
        /\ Occurrences(ti_net[i].url, "/tools") = 1
        /\ ~Contains(ti_net[i].url, "/tools/tools")

\* the path with a leading slash ensured
EnsureSlash(path) == IF StartsWith(path, "/") THEN path ELSE "/" \o path

\* the path is /tools or under /tools/
UnderTools(path) == path = "/tools" \/ StartsWith(path, "/tools/")

\* the base without trailing slashes, then /tools unless the path has it, then the path
Joined(base, path) == RStripCh(base, "/") \o (IF UnderTools(path) THEN "" ELSE "/tools") \o path

\* C8 (as amended): _join_url(base, path, "/tools") is the base without
\* trailing slashes followed by the path, trimmed of surrounding whitespace
\* and with a leading slash ensured, with /tools before it exactly when that
\* path is not /tools or under /tools/; join("http://h/", "/sub") and
\* join("http://h", "/tools/sub") both give http://h/tools/sub.
C8_JoinUrl ==
    jn.done =>
        /\ jn.url = Joined(jn.base, EnsureSlash(Strip(jn.path)))
        /\ (jn.base = "http://h/" /\ jn.path = "/sub" => jn.url = "http://h/tools/sub")
        /\ (jn.base = "http://h" /\ jn.path = "/tools/sub" => jn.url = "http://h/tools/sub")

\* C8 as stated: the path as given, with a leading slash ensured.
C8_JoinUrlOfPathAsGiven == jn.done => jn.url = Joined(jn.base, EnsureSlash(jn.path))

\* a path under /tools/ was joined to a base and got no second prefix
C8_Witness == jn.done /\ jn.base = "http://h" /\ jn.path = "/tools/sub" /\ jn.url = "http://h/tools/sub"

\* the candidate is a message whose text is a JSON object with at least one key
TextObject(candidate) ==
    /\ candidate.cls = "dict"
    /\ Get(candidate.data, "text").t = "str"
    /\ JsonLoads(Get(candidate.data, "text").s).exc = ""
    /\ IsDict(JsonLoads(Get(candidate.data, "text").s).val)
    /\ JsonLoads(Get(candidate.data, "text").s).val.v # <<>>

\* C10 (as amended): after update_build_config of the router the options are
\* the keys it extracted (those of the object in the message text, when the
\* text is a JSON object with keys), or the four keys name, url_path,
\* description, base_url when it extracted none; the value is one of the
\* options: the previous value when that is still an option, otherwise
\* "name" when "name" is an option and the first option otherwise.
C10_KeyOptions ==
    rt_last.done =>
        /\ rt_cfg.options = IF rt_last.extracted = <<>> THEN <<"name", "url_path", "description", "base_url">>
                            ELSE rt_last.extracted
        /\ (TextObject(rt_last.candidate)
               => rt_cfg.options = Keys(JsonLoads(Get(rt_last.candidate.data, "text").s).val))
        /\ InSeq(rt_cfg.value, rt_cfg.options)
        /\ rt_cfg.value = IF rt_last.current_value # "" /\ InSeq(rt_last.current_value, rt_cfg.options)
                          THEN rt_last.current_value
                          ELSE IF InSeq("name", rt_cfg.options) THEN "name" ELSE rt_cfg.options[1]
        /\ (rt_cfg.options = <<"url_path">> => rt_cfg.value = "url_path")

\* C10 as stated: the options are always the keys of the extracted object.
C10_OptionsAreExtractedKeys == rt_last.done => rt_cfg.options = rt_last.extracted

\* the selected key is gone from the new keys, of which "name" is not the first
C10_Witness ==
    /\ rt_last.done
    /\ rt_last.current_value # ""
    /\ ~InSeq(rt_last.current_value, rt_cfg.options)
    /\ rt_cfg.options = <<"url_path", "name">>
    /\ rt_cfg.value = "name"

(***************************************************************************)
(* Claims on the router's outputs                                          *)
(***************************************************************************)
\* C11: get_prompt_value_message returns a message and does not raise,
\* whatever the tool_message and the selected key; when the selected key is
\* not in the extracted object the text of the message is the empty string.
C11_PromptValueNeverRaises ==
    rt_out.op = "prompt_value" =>
        /\ rt_out.exc = ""
        /\ (IsDict(rt_out.data) /\ Strip(rt_in.key_for_prompt) # ""
              /\ ~HasKey(rt_out.data, Strip(rt_in.key_for_prompt))
               => rt_out.text = "")

\* the message of the last read, when that is a Message
RanOnMessage == rt_out.op # "" /\ rt_in.tool_message.cls = "Message"

\* C12: the object the router works on is the first of these that yields
\* valid JSON or a mapping: the parsed text of the message, its data, the
\* raw string, the raw mapping; a message whose text is not empty and not
\* JSON and whose data is a mapping yields the data.
C12_ExtractionOrder ==
    LET msg == rt_in.tool_message IN
    /\ (RanOnMessage /\ Strip(msg.text) # "" /\ JsonLoads(msg.text).exc = ""
           => rt_out.data = JsonLoads(msg.text).val)
    /\ (RanOnMessage /\ Strip(msg.text) # "" /\ JsonLoads(msg.text).exc # "" /\ IsDict(msg.data)
           => rt_out.data = msg.data)
    /\ (RanOnMessage /\ Strip(msg.text) = "" /\ IsDict(msg.data) => rt_out.data = msg.data)
    /\ (rt_out.op # "" /\ msg.cls = "str" /\ Strip(msg.text) # "" /\ JsonLoads(msg.text).exc = ""
           => rt_out.data = JsonLoads(msg.text).val)
    /\ (rt_out.op # "" /\ msg.cls = "dict" => rt_out.data = msg.data)

(***************************************************************************)
(* Claims on the chat call's reply                                         *)
(***************************************************************************)
\* the read called the backend and got a body
AnsweredRead(read) == read.exc = "" /\ read.calls > 0

\* choices[0].message.content is present in the response and is not null
ContentPresent(resp) ==
    /\ IsDict(resp)
    /\ Get(resp, "choices").t = "list" /\ Get(resp, "choices").v # <<>>
    /\ IsDict(Get(resp, "choices").v[1])
    /\ IsDict(Get(Get(resp, "choices").v[1], "message"))
    /\ Get(Get(Get(resp, "choices").v[1], "message"), "content").t # "null"

ContentOf(resp) == Get(Get(Get(resp, "choices").v[1], "message"), "content")

\* C13: _call_chat returns choices[0].message.content of the response when
\* that path is present, and otherwise (no choices, empty choices, no
\* message, no content, null content) the raw JSON of the response cut to at
\* most 2000 characters.
C13_ContentElseRawJson ==
    \A i \in 1..Len(mp_reads) :
        AnsweredRead(mp_reads[i]) =>
            mp_reads[i].text = IF ContentPresent(mp_reads[i].resp)
                               THEN PyStr(ContentOf(mp_reads[i].resp))
                               ELSE Truncate(JsonDumps(mp_reads[i].resp), 2000)

\* C14: whatever the network does (success, HTTP error status, transport
\* failure of the primary request or of both requests, a body that is no
\* JSON), a read of run_text or run_message returns a text that is not empty
\* and does not raise.
C14_ReadsReturnText ==
    \A i \in 1..Len(mp_reads) : mp_reads[i].exc = "" /\ mp_reads[i].text # ""

(***************************************************************************)
(* Claims on the tool invoker's error objects                              *)
(***************************************************************************)
\* the field of the selection is absent, empty, null or no string
FieldUnusable(sel, key) ==
    ~HasKey(sel, key) \/ Get(sel, key).t # "str" \/ Strip(Get(sel, key).s) = ""

\* selection_json gives no selection, or one without a usable base_url or url_path
SelectionUnusable(x) ==
    x.err # "" \/ FieldUnusable(x.sel, "base_url") \/ FieldUnusable(x.sel, "url_path")

\* params_json is given and is no JSON
ParamsInvalid(params_raw) == params_raw # "" /\ JsonLoads(params_raw).exc # ""

\* the text is a JSON object with an "error" key
ErrorObject(parsed) == parsed.exc = "" /\ IsDict(parsed.val) /\ HasKey(parsed.val, "error")

\* C15: when selection_json gives no usable selection (no value, empty text,
\* invalid JSON, JSON that is no object, base_url or url_path absent, empty,
\* null or no string), or params_json is no JSON, _invoke_core returns a
\* JSON object with an "error" key as its text, issues no request and does
\* not raise.
C15_ErrorObjectNoCall ==
    (ti_out.done /\ (SelectionUnusable(ExtractSelection(ti_in.selection_json))
                     \/ ParamsInvalid(Strip(ti_in.params_json))))
        => /\ ti_out.exc = ""
           /\ ti_net = <<>>
           /\ ErrorObject(JsonLoads(ti_out.text))

\* C16: a chat call on an instance on which update_build_config never ran
\* (its label-to-id map is as created) first fetches /v1/models and resolves
\* the selected label through what it fetched: the first request is the GET
\* of the model list, the POST follows it, and the model sent is the id of
\* the selected label.
C16_ResolvesBeforeChat ==
    (mp_req # JNull /\ ~mp_did_initial_fetch) =>
        /\ Len(mp_net) >= 2
        /\ EndsWith(mp_net[1].url, "/v1/models")
        /\ EndsWith(mp_net[Len(mp_net)].url, "/v1/chat/completions")
        /\ \E i \in 1..Len(mp_name_to_id) :
              mp_name_to_id[i] = <<SelectedLabel, Get(mp_req, "model").s>>

(***************************************************************************)
(* Claims on the network calls of one operation                            *)
(***************************************************************************)
\* the requests of one operation of a picker: none, the primary request, or
\* the primary request that failed and then one retry
PrimaryThenRetry(net) ==
    /\ Len(net) <= 2
    /\ (Len(net) >= 1 => net[1].role = "primary")
    /\ (Len(net) = 2 => net[1].exc # "" /\ net[2].role = "retry")

\* the requests of one _invoke_core: none, the request, or the request that
\* was answered 404 and then one more with the trailing slash
RequestThenRetry(net) ==
    /\ Len(net) <= 2
    /\ (Len(net) = 2 => net[1].status = 404 /\ net[2].url = net[1].url \o "/")

\* C17: one operation of a component (a refresh of the model list, a refresh
\* or a fetch of the tool list, a chat call, a tool invocation) issues at
\* most two requests, one after the other: the primary request, and then at
\* most one fallback request.
C17_AtMostTwoCalls ==
    /\ PrimaryThenRetry(mp_net)
    /\ PrimaryThenRetry(tp_net)
    /\ RequestThenRetry(ti_net)

\* the last operation of each component fell back: the chat call, the fetch
\* of the tools and the tool invocation issued two requests each
C17_Witness ==
    /\ Len(mp_net) = 2 /\ EndsWith(mp_net[2].url, "/v1/chat/completions")
    /\ Len(tp_net) = 2 /\ mp_net[1].exc = "URLError" /\ tp_net[1].exc = "URLError"
    /\ Len(ti_net) = 2 /\ ti_net[1].status = 404

\* the outcome of the primary request of the last operation, as an answer
PrimaryOutcome == [exc |-> mp_net[1].exc, val |-> JNull]

\* the requests _fetch_models issues against the configured base when its
\* primary request ends as that of the last operation did
DiscoveryCalls == FetchModels(ConfiguredBase, PrimaryOutcome, PrimaryOutcome).calls

\* the requests _call_chat issues, likewise
ChatCalls ==
    CallChat(mp_name_to_id, CollectInputs(mp_in, mp_cfg), mp_in.toolkit, PrimaryOutcome, PrimaryOutcome).calls

\* the URL without the path of the endpoint
HostOf(url, path) == SubSeq(url, 1, Len(url) - Len(path))

\* C18: the chat call and the discovery call follow the same fallback policy:
\* for the configured base URL and whatever way the primary request failed,
\* either both issue the one retry, to the same substituted host, or neither
\* does. Checked on every operation that failed: what it issued against what
\* the other call issues for the same base and failure.
C18_SameFallbackPolicy ==
    (mp_net # <<>> /\ mp_net[1].exc # "") =>
        /\ Len(DiscoveryCalls) = Len(ChatCalls)
        /\ (mp_fetch.done => Len(mp_net) = Len(DiscoveryCalls))
        /\ (mp_req # JNull => Len(mp_net) = Len(ChatCalls))
        /\ (Len(DiscoveryCalls) = 2 /\ Len(ChatCalls) = 2
              => HostOf(DiscoveryCalls[2].url, "/v1/models") = HostOf(ChatCalls[2].url, "/v1/chat/completions"))

(***************************************************************************)
(* Claims on the tool picker's dropdown                                    *)
(***************************************************************************)
\* the last operation of the tool picker was an update_build_config that refreshed
TpRefreshRan == tp_net # <<>> /\ ~tp_out.done

\* C19: after update_build_config refreshed, the selected_tool dropdown has a
\* selectable option: its options are not empty and its value is one of
\* them, also when GET /tools failed or returned no usable tool.
C19_DropdownNeverEmpty ==
    TpRefreshRan => tp_cfg.options # <<>> /\ InSeq(tp_cfg.value, tp_cfg.options)

(***************************************************************************)
(* Claims on the chat call's request body                                  *)
(***************************************************************************)
\* the messages of a request body with the given role
WithRole(req, role) ==
    {i \in 1..Len(Get(req, "messages").v) : Get(Get(req, "messages").v[i], "role") = JStr(role)}

\* C20: every request body _call_chat builds has the shape {model, messages,
\* tools?, tool_choice?}: messages holds exactly one user message, the last,
\* preceded by exactly one system message iff the prompt the call received is
\* not empty; tools is present only when enable_tools is set and the
\* serialized tool list is not empty; tool_choice is present only together
\* with tools, and is then "auto".
C20_RequestShape ==
    mp_req # JNull =>
        LET a == CollectInputs(mp_in, mp_cfg)
            n == Len(Get(mp_req, "messages").v)
        IN /\ IsDict(mp_req)
           /\ \A i \in 1..Len(mp_req.v) : mp_req.v[i].k \in {"model", "messages", "tools", "tool_choice"}
           /\ \A i, j \in 1..Len(mp_req.v) : mp_req.v[i].k = mp_req.v[j].k => i = j
           /\ HasKey(mp_req, "model") /\ Get(mp_req, "model").t = "str"
           /\ HasKey(mp_req, "messages") /\ Get(mp_req, "messages").t = "list"
           /\ WithRole(mp_req, "user") = {n}
           /\ WithRole(mp_req, "system") = (IF a.prompt # "" THEN {1} ELSE {})
           /\ n = (IF a.prompt # "" THEN 2 ELSE 1)
           /\ HasKey(mp_req, "tools") =>
                 /\ mp_in.enable_tools
                 /\ BuildToolsPayload(mp_in.toolkit) # <<>>
                 /\ Get(mp_req, "tools") = JList(BuildToolsPayload(mp_in.toolkit))
           /\ HasKey(mp_req, "tool_choice") =>
                 HasKey(mp_req, "tools") /\ Get(mp_req, "tool_choice") = JStr("auto")

\* a request was sent with a system message, tools and tool_choice, the
\* toolkit holding a tool with no name
C20_Witness ==
    /\ mp_req # JNull
    /\ Len(Get(mp_req, "messages").v) = 2
    /\ HasKey(mp_req, "tools") /\ HasKey(mp_req, "tool_choice")
    /\ Len(mp_in.toolkit.tools) = 2 /\ Len(Get(mp_req, "tools").v) = 1

(***************************************************************************)
(* Claims on the pickers' update_build_config                              *)
(***************************************************************************)
\* the last operation of the model picker was an update_build_config that refreshed
MpRefreshRan == mp_call.made /\ mp_fetch.done

\* C21: after every refresh of CoEModelPicker.update_build_config, whatever
\* came before, the model_name value is one of the model_name options: the
\* selection the call was handed is kept when it is among the newly resolved
\* options, and is otherwise replaced by the first option.
C21_ValueAmongOptions ==
    MpRefreshRan =>
        /\ mp_cfg.options # <<>>
        /\ InSeq(mp_cfg.value, mp_cfg.options)
        /\ mp_cfg.value = IF InSeq(mp_call.current_value, mp_cfg.options)
                          THEN mp_call.current_value ELSE mp_cfg.options[1]

\* a refresh found the selection gone from the options and replaced it
C21_Witness ==
    /\ MpRefreshRan
    /\ mp_call.current_value # ""
    /\ ~InSeq(mp_call.current_value, mp_cfg.options)
    /\ mp_cfg.value = mp_cfg.options[1]

\* C22: after update_build_config of either picker is called with field_name
\* refresh_now, the refresh_now toggle of the build_config it returns is
\* False, whatever the fetch gave and whatever the base URL, an empty one
\* included.
C22_ToggleLowered ==
    /\ (mp_call.made /\ mp_call.field_name = "refresh_now") => ~mp_cfg.refresh_now
    /\ (tp_call.made /\ tp_call.field_name = "refresh_now") => ~tp_cfg.refresh_now

\* the call recorded is one the claim is about: the instance had completed a
\* refresh, the field is no refresh trigger, the options were not empty and
\* the value is not the refresh placeholder
MpSettledCall(call) ==
    /\ call.made /\ call.did_initial_fetch
    /\ call.field_name \notin {"backend_url", "force_https", "refresh_now"}
    /\ ~call.no_options /\ call.current_value # "(click Refresh models now)"
TpSettledCall(call) ==
    /\ call.made /\ call.did_initial_fetch
    /\ call.field_name \notin {"backend_base_url", "force_https", "refresh_now"}
    /\ ~call.no_options /\ call.current_value # "(click Refresh tools now)"

\* C23: once an instance of either picker has completed a refresh, an
\* update_build_config whose field_name is no refresh trigger, made while the
\* options are not empty and the value is not the refresh placeholder, issues
\* no request and leaves build_config (as the host handed it over, the edited
\* value in place), the option cache and the initial-fetch flag as they were.
C23_SettledCallChangesNothing ==
    [][/\ MpSettledCall(mp_call') =>
            /\ mp_net' = <<>>
            /\ mp_cfg' = [mp_cfg EXCEPT !.value = mp_call'.current_value]
            /\ mp_name_to_id' = mp_name_to_id
            /\ mp_did_initial_fetch' = mp_did_initial_fetch
       /\ TpSettledCall(tp_call') =>
            /\ tp_net' = <<>>
            /\ tp_cfg' = [tp_cfg EXCEPT !.value = tp_call'.current_value]
            /\ tp_last_tools' = tp_last_tools
            /\ tp_did_initial_fetch' = tp_did_initial_fetch]_vars

\* both pickers were last called so: a selection edited in each, after a
\* refresh that filled the options
C23_Witness ==
    /\ MpSettledCall(mp_call) /\ mp_call.field_name = "model_name"
    /\ mp_cfg.value = "Beta" /\ mp_net = <<>>
    /\ TpSettledCall(tp_call) /\ tp_call.field_name = "selected_tool"
    /\ tp_cfg.value = "sub" /\ tp_net = <<>>

(***************************************************************************)
(* Claims on the tool invoker's request                                    *)
(***************************************************************************)
\* the method the claim gives for the inputs
ClaimedMethod(in) ==
    IF in.force_get_query THEN "GET"
    ELSE IF Upper(Strip(in.method_override)) \in {"GET", "POST", "PUT", "PATCH", "DELETE"}
    THEN Upper(Strip(in.method_override))
    ELSE "POST"

\* the query of a GET over params as json.loads gave them (loaded) and the user's text
QueryAsClaimed(q, loaded, user_text) ==
    /\ q.json = JNull
    /\ IsDict(q.params)
    /\ IF loaded.exc = "" /\ IsDict(loaded.val) /\ HasKey(loaded.val, "input")
       THEN Get(q.params, "input") = Get(loaded.val, "input")
       ELSE IF Strip(user_text) # ""
       THEN Get(q.params, "input") = JStr(user_text)
       ELSE ~HasKey(q.params, "input")

\* C24: the method of every request _invoke_core issues is one of GET, POST,
\* PUT, PATCH, DELETE: GET whenever force_get_query is set, otherwise the
\* upper-cased trimmed method_override when that is one of the five, otherwise
\* POST; and in GET mode the user input goes out as the query parameter input
\* only when params does not define input already.
C24_MethodAndQuery ==
    \A i \in 1..Len(ti_net) :
        /\ ti_net[i].method \in {"GET", "POST", "PUT", "PATCH", "DELETE"}
        /\ ti_net[i].method = ClaimedMethod(ti_in)
        /\ ti_net[i].method = "GET" =>
              QueryAsClaimed(ti_net[i], JsonLoads(Strip(ti_in.params_json)), ExtractUserText(ti_in.user_input))
        /\ ti_net[i].method # "GET" => ti_net[i].params = JNull

\* a GET forced over a method_override of delete, with params that define
\* input and a user input: the query keeps the input of params
C24_Witness ==
    /\ Len(ti_net) = 2
    /\ ti_in.force_get_query /\ ti_in.method_override = "delete"
    /\ ti_in.user_input = PyMessage("hello", JNull)
    /\ ti_net[2].method = "GET"
    /\ Get(ti_net[2].params, "input") = JStr("x")

(***************************************************************************)
(* Claims on the Model ID output                                           *)
(***************************************************************************)
\* C25: on one instance, for every selected label and every state of the
\* label-to-id cache, the Model ID output (get_model_id) equals the model
\* field _call_chat puts in the chat request for the same selection.
C25_ModelIdIsRequestModel ==
    mp_req # JNull => Get(mp_req, "model") = JStr(GetModelId(mp_name_to_id, mp_cfg))

\* the label of the tool a payload of _run names, the payload loaded as JSON
PayloadLabel(loaded) ==
    IF Truthy(Get(loaded.val, "name")) THEN Get(loaded.val, "name").s ELSE Get(loaded.val, "url_path").s

\* the payload is a selection, not an error object
NamesTool(loaded) == loaded.exc = "" /\ IsDict(loaded.val) /\ ~HasKey(loaded.val, "error")

\* C26: after any sequence of refreshes on one instance, failed or not,
\* against one base URL or several, the cached list _last_tools describes
\* exactly the options of the selected_tool dropdown, so that every payload
\* of _run that is no error names a tool among the dropdown's options.
C26_CacheMatchesDropdown ==
    tp_did_initial_fetch =>
        /\ ToolLabels(tp_last_tools) = tp_cfg.options
        /\ (tp_out.done /\ NamesTool(JsonLoads(tp_out.text)))
              => InSeq(PayloadLabel(JsonLoads(tp_out.text)), tp_cfg.options)

====
